---- MODULE Spec2Model ----
(***************************************************************************)
(* A model of proplot/colortools.py: the colormap registry (CmapDict), the *)
(* Colormap and Cycle constructors as far as they touch the registry, and  *)
(* the discretising normalizer BinNorm with its pre-normalizers.           *)
(*                                                                         *)
(* Conventions.  A Python str is a sequence of one-character strings, so   *)
(* that lower(), slicing and concatenation are computed.  Python's None is *)
(* the integer None (-1) wherever the other values are numbers.  A float   *)
(* is an exact rational <<numerator, denominator>> in lowest terms; a zero *)
(* denominator stands for a non-finite value (0/0 is nan).                 *)
(***************************************************************************)
EXTENDS Integers, Sequences, FiniteSets, TLC

VARIABLES
    cmap_d,     \* the registry: stored key -> object id          (mcm.cmap_d)
    objs,       \* the heap of colormap objects: id -> attributes
    dicts,      \* the heap of _segmentdata dicts: id -> entries
    ret,        \* what the last registry operation returned or raised
    norm,       \* the BinNorm instance (or the error its constructor raised)
    out         \* what the last BinNorm call returned or raised

vars == <<cmap_d, objs, dicts, ret, norm, out>>

None == -1

-----------------------------------------------------------------------------
(* Python strings *)

UpperChars ==
    <<"A","B","C","D","E","F","G","H","I","J","K","L","M",
      "N","O","P","Q","R","S","T","U","V","W","X","Y","Z">>

LowerChars ==
    <<"a","b","c","d","e","f","g","h","i","j","k","l","m",
      "n","o","p","q","r","s","t","u","v","w","x","y","z">>

\* the two alphabets as one table: letter i in upper and in lower case
RECURSIVE CaseTable(_, _)
CaseTable(i, upper) ==
    IF i = 0 THEN "_" :> "_"
    ELSE CaseTable(i - 1, upper)
         @@ (UpperChars[i] :> (IF upper THEN UpperChars[i] ELSE LowerChars[i]))
         @@ (LowerChars[i] :> (IF upper THEN UpperChars[i] ELSE LowerChars[i]))

\* the lower-case and the upper-case form of each character
LowerOf == CaseTable(Len(UpperChars), FALSE)

UpperOf == CaseTable(Len(UpperChars), TRUE)

lower_char(c) == LowerOf[c]

upper_char(c) == UpperOf[c]

\* str.lower()
RECURSIVE lower(_)
lower(s) == IF s = <<>> THEN <<>> ELSE <<lower_char(Head(s))>> \o lower(Tail(s))

\* key[-2:]
Last2(s) == IF Len(s) <= 2 THEN s ELSE SubSeq(s, Len(s) - 1, Len(s))

\* key[:-2]
DropLast2(s) == SubSeq(s, 1, Len(s) - 2)

\* the literal '_r'
SuffixR == <<"_", "r">>

\* name[slice(start, stop)] for start, stop in {None} \cup Nat
PySlice(s, start, stop) ==
    LET lo == IF start = None THEN 0 ELSE start
        hi == IF stop = None \/ stop > Len(s) THEN Len(s) ELSE stop
    IN  SubSeq(s, lo + 1, hi)

\* every letter-casing variant of s
CaseVariants(s) ==
    { [i \in 1..Len(s) |-> IF up[i] THEN UpperOf[s[i]] ELSE LowerOf[s[i]]] :
        up \in [1..Len(s) -> BOOLEAN] }

\* the order of Python's str comparison, on the characters of the model
RECURSIVE RankTable(_)
RankTable(i) ==
    IF i = 0 THEN "_" :> Len(UpperChars) + 1
    ELSE RankTable(i - 1) @@ (UpperChars[i] :> i)
                          @@ (LowerChars[i] :> Len(UpperChars) + 1 + i)

CharRank == RankTable(Len(UpperChars))

RECURSIVE StrLess(_, _)
StrLess(a, b) ==
    IF b = <<>> THEN FALSE
    ELSE IF a = <<>> THEN TRUE
    ELSE IF Head(a) # Head(b) THEN CharRank[Head(a)] < CharRank[Head(b)]
    ELSE StrLess(Tail(a), Tail(b))

-----------------------------------------------------------------------------
(* The mirror table *)

_cmap_parts ==
    << <<<<"p","i","y","g">>,                 <<None, 2, None>>>>,
       <<<<"p","r","g","n">>,                 <<None, 1, 2, None>>>>,
       <<<<"b","r","b","g">>,                 <<None, 2, 3, None>>>>,
       <<<<"p","u","o","r">>,                 <<None, 2, None>>>>,
       <<<<"r","d","g","y">>,                 <<None, 2, None>>>>,
       <<<<"r","d","b","u">>,                 <<None, 2, None>>>>,
       <<<<"r","d","y","l","b","u">>,         <<None, 2, 4, None>>>>,
       <<<<"r","d","y","l","g","n">>,         <<None, 2, 4, None>>>>,
       <<<<"b","w","r">>,                     <<None, 1, 2, None>>>>,
       <<<<"c","o","l","d","h","o","t">>,     <<None, 4, None>>>>,
       <<<<"n","e","g","p","o","s">>,         <<None, 3, None>>>>,
       <<<<"d","r","y","w","e","t">>,         <<None, 3, None>>>> >>

\* ''.join(reversed([name[slice(*idxs[i:i+2])] for i in range(len(idxs)-1)]))
RECURSIVE JoinReversedParts(_, _, _)
JoinReversedParts(name, idxs, i) ==
    IF i < 1 THEN <<>>
    ELSE PySlice(name, idxs[i], idxs[i + 1]) \o JoinReversedParts(name, idxs, i - 1)

\* the list comprehension over _cmap_parts.items(), up to item k
RECURSIVE MirrorsUpTo(_)
MirrorsUpTo(k) ==
    IF k = 0 THEN <<>>
    ELSE Append(MirrorsUpTo(k - 1),
                << _cmap_parts[k][1],
                   JoinReversedParts(_cmap_parts[k][1], _cmap_parts[k][2],
                                     Len(_cmap_parts[k][2]) - 1) >>)

_cmap_mirrors == MirrorsUpTo(Len(_cmap_parts))

-----------------------------------------------------------------------------
(* Colormap objects.  An object has an identity (its id on the heap objs), *)
(* and a PerceptuallyUniformColormap refers to its _segmentdata dict by    *)
(* the dict's identity, so that two maps can share one dict.  The name,    *)
(* N and lookup-table attributes of a map are not tracked.                 *)

\* a gamma entry of a _segmentdata dict: a float, or an array of floats
Scalar(g) == <<"scalar", <<g>>>>

Array(gs) == <<"array", gs>>

NoGamma == <<"none", <<>>>>

\* the _segmentdata of an object that has none (a ListedColormap)
NoDict ==
    [hue |-> <<>>, saturation |-> <<>>, luminance |-> <<>>,
     gamma1 |-> NoGamma, gamma2 |-> NoGamma]

NoValue ==
    [cls |-> "None", colors |-> <<>>, space |-> "",
     cyclic |-> "unset", segmentdata |-> NoDict]

\* the store the operations work on
Store == [objs |-> objs, dicts |-> dicts]

\* the observable content of the object id
Value(st, id) ==
    LET o == st.objs[id]
    IN  [cls |-> o.cls, colors |-> o.colors,
         space |-> o.space, cyclic |-> o.cyclic,
         segmentdata |-> IF o.sd = 0 THEN NoDict ELSE st.dicts[o.sd]]

\* a fresh identity in the heap f
NewId(f) == CHOOSE i \in 1..(Cardinality(DOMAIN f) + 1) :
                /\ i \notin DOMAIN f
                /\ \A j \in 1..(i - 1) : j \in DOMAIN f

RECURSIVE Reverse(_)
Reverse(s) == IF s = <<>> THEN <<>> ELSE Append(Reverse(Tail(s)), Head(s))

\* utils._default(a, b): the first argument that is not None
_default(a, b) == IF a # None THEN a ELSE b

-----------------------------------------------------------------------------
(* Exact rationals *)

Abs(n) == IF n < 0 THEN -n ELSE n

RECURSIVE GCD(_, _)
GCD(a, b) == IF b = 0 THEN a ELSE GCD(b, a % b)

\* n/d in lowest terms; d = 0 gives nan (0/0) or +-inf
Rat(n, d) ==
    IF d = 0 THEN <<(IF n > 0 THEN 1 ELSE IF n < 0 THEN -1 ELSE 0), 0>>
    ELSE LET g == GCD(Abs(n), Abs(d))
             s == IF d < 0 THEN -1 ELSE 1
         IN  <<(s * n) \div g, (s * d) \div g>>

R(n) == <<n, 1>>

RAdd(a, b) == Rat(a[1] * b[2] + b[1] * a[2], a[2] * b[2])

RSub(a, b) == Rat(a[1] * b[2] - b[1] * a[2], a[2] * b[2])

RMul(a, b) == Rat(a[1] * b[1], a[2] * b[2])

RDiv(a, b) == Rat(a[1] * b[2], a[2] * b[1])

\* a < b and a <= b, for finite a and b
RLt(a, b) == a[1] * b[2] < b[1] * a[2]

RLe(a, b) == a[1] * b[2] <= b[1] * a[2]

\* np.isfinite
IsFinite(a) == a[2] # 0

-----------------------------------------------------------------------------
(* reversed() *)

\* matplotlib's ListedColormap.reversed(): a new map, the colors in reverse
\* order
ListedReversed(v) ==
    [v EXCEPT !.colors = Reverse(v.colors),
              !.cyclic = "unset"]

\* np.atleast_1d(xyy)[::-1]
GammaReversed(g) == Array(Reverse(g[2]))

\* [[1.0 - x, y1, y0] for x, y0, y1 in reversed(xyy)]
RECURSIVE XyyReversed(_)
XyyReversed(xyy) ==
    IF xyy = <<>> THEN <<>>
    ELSE Append(XyyReversed(Tail(xyy)),
                <<RSub(R(1), Head(xyy)[1]), Head(xyy)[3], Head(xyy)[2]>>)

\* PerceptuallyUniformColormap.reversed(): a new map over a new dict
PUReversed(v) ==
    [v EXCEPT !.cyclic = "unset",
              !.segmentdata =
                  [hue        |-> XyyReversed(v.segmentdata.hue),
                   saturation |-> XyyReversed(v.segmentdata.saturation),
                   luminance  |-> XyyReversed(v.segmentdata.luminance),
                   gamma1     |-> GammaReversed(v.segmentdata.gamma1),
                   gamma2     |-> GammaReversed(v.segmentdata.gamma2)]]

reversed(v) == IF v.cls = "Listed" THEN ListedReversed(v) ELSE PUReversed(v)

-----------------------------------------------------------------------------
(* CmapDict *)

\* the loop over _cmap_mirrors in _sanitize_key, from entry i on: the
\* partner of key in the last pair that holds it, km when no pair does
RECURSIVE KeyMirror(_, _, _)
KeyMirror(key, km, i) ==
    IF i > Len(_cmap_mirrors) THEN km
    ELSE LET mirror == _cmap_mirrors[i]
         IN  IF mirror[1] = key THEN KeyMirror(key, mirror[2], i + 1)
             ELSE IF mirror[2] = key THEN KeyMirror(key, mirror[1], i + 1)
             ELSE KeyMirror(key, km, i + 1)

\* _sanitize_key without the flip of reverse on a mirror hit
_sanitize_key_noflip(d, key) ==
    LET k0   == lower(key)
        rev0 == Last2(k0) = SuffixR
        k1   == IF rev0 THEN DropLast2(k0) ELSE k0
        km   == KeyMirror(k1, k1, 1)
        hit  == k1 \notin DOMAIN d /\ km \in DOMAIN d
        k2   == IF hit THEN km ELSE k1
    IN  IF rev0 THEN k2 \o SuffixR ELSE k2

\* CmapDict._sanitize_key, on the stored keys d
_sanitize_key(d, key) ==
    LET k0   == lower(key)
        rev0 == Last2(k0) = SuffixR
        k1   == IF rev0 THEN DropLast2(k0) ELSE k0
        km   == KeyMirror(k1, k1, 1)
        hit  == k1 \notin DOMAIN d /\ km \in DOMAIN d
        k2   == IF hit THEN km ELSE k1
        rev  == IF hit THEN ~rev0 ELSE rev0
    IN  IF rev THEN k2 \o SuffixR ELSE k2

\* _getitem without the call of reversed()
_getitem_stored(d, st, key) ==
    LET rev  == Last2(key) = SuffixR
        base == IF rev THEN DropLast2(key) ELSE key
    IN  IF base \notin DOMAIN d
        THEN [exc |-> "KeyError", ref |-> 0, val |-> NoValue]
        ELSE [exc |-> "", ref |-> d[base], val |-> Value(st, d[base])]

\* CmapDict._getitem: [exc, ref, val]; ref is the identity of a stored
\* object, 0 for the new object reversed() makes
_getitem(d, st, key) ==
    LET rev  == Last2(key) = SuffixR
        base == IF rev THEN DropLast2(key) ELSE key
    IN  IF base \notin DOMAIN d
        THEN [exc |-> "KeyError", ref |-> 0, val |-> NoValue]
        ELSE IF rev
        THEN [exc |-> "", ref |-> 0, val |-> reversed(Value(st, d[base]))]
        ELSE [exc |-> "", ref |-> d[base], val |-> Value(st, d[base])]

\* CmapDict.__getitem__
__getitem__(d, st, key) == _getitem(d, st, _sanitize_key(d, key))

\* CmapDict.__setitem__: the stored keys after self[key] = id
__setitem__(d, key, id) ==
    [k \in DOMAIN d \cup {lower(key)} |-> IF k = lower(key) THEN id ELSE d[k]]

\* CmapDict.__contains__
__contains__(d, st, key) == __getitem__(d, st, key).exc = ""

\* dict.__delitem__ on a key that is stored
DelItem(d, key) == [k \in DOMAIN d \ {key} |-> d[k]]

\* CmapDict.pop(key) and pop(key, default): [exc, ref, val, d]; hasdefault
\* tells whether a default was given, and the default is None
pop(d, st, key, hasdefault) ==
    LET k == _sanitize_key(d, key)
        g == _getitem(d, st, k)
    IN  IF g.exc = "" /\ k \in DOMAIN d
        THEN [exc |-> "", ref |-> g.ref, val |-> g.val, d |-> DelItem(d, k)]
        ELSE [exc |-> IF hasdefault THEN "" ELSE "KeyError",
              ref |-> 0, val |-> NoValue, d |-> d]

\* Objects are known by their references only: what stays of the store is
\* what the registry d refers to, and the identities are renamed to 1..n in
\* the order of the least key that refers to each.  [d, st, ref]
Reachable(d, st, ref) ==
    LET ids      == {d[k] : k \in DOMAIN d}
        lessk     == {p \in (DOMAIN d) \X (DOMAIN d) : StrLess(p[1], p[2])}
        rank      == [i \in ids |->
                        1 + Cardinality({j \in ids :
                              \E kj \in DOMAIN d :
                                  /\ d[kj] = j
                                  /\ \A ki \in DOMAIN d :
                                        d[ki] = i => <<kj, ki>> \in lessk})]
        sds       == {st.objs[i].sd : i \in ids} \ {0}
        owner     == [s \in sds |->
                        CHOOSE n \in 1..Cardinality(ids) :
                            /\ \E i \in ids : rank[i] = n /\ st.objs[i].sd = s
                            /\ \A i \in ids : st.objs[i].sd = s => rank[i] >= n]
        drank     == [s \in sds |->
                        1 + Cardinality({t \in sds : owner[t] < owner[s]})]
    IN  [d   |-> [k \in DOMAIN d |-> rank[d[k]]],
         st  |-> [objs  |-> [n \in 1..Cardinality(ids) |->
                               LET i == CHOOSE j \in ids : rank[j] = n
                               IN  [st.objs[i] EXCEPT
                                      !.sd = IF @ = 0 THEN 0 ELSE drank[@]]],
                  dicts |-> [m \in 1..Cardinality(sds) |->
                               st.dicts[CHOOSE s \in sds : drank[s] = m]]],
         ref |-> IF ref \in ids THEN rank[ref] ELSE 0]

-----------------------------------------------------------------------------
(* Constructors *)

_space_aliases ==
    [rgb |-> "rgb", hsv |-> "hsv", hpl |-> "hpl", hpluv |-> "hpl",
     hsl |-> "hsl", hsluv |-> "hsl", hcl |-> "hcl", lch |-> "hcl"]

\* _get_space: the canonical name of a colorspace, "ValueError" for an
\* unknown one
_get_space(space) ==
    IF space \in DOMAIN _space_aliases THEN _space_aliases[space]
    ELSE "ValueError"

\* bool(g) of a gamma argument: neither None nor zero
Truthy(g) == g # None /\ g # 0

\* the store with a new object o: [st, id]
AllocObj(st, o) ==
    LET id == NewId(st.objs)
    IN  [st |-> [st EXCEPT !.objs = [i \in DOMAIN st.objs \cup {id} |->
                                       IF i = id THEN o ELSE st.objs[i]]],
         id |-> id]

\* the store with a new dict e: [st, id]
AllocDict(st, e) ==
    LET id == NewId(st.dicts)
    IN  [st |-> [st EXCEPT !.dicts = [i \in DOMAIN st.dicts \cup {id} |->
                                        IF i = id THEN e ELSE st.dicts[i]]],
         id |-> id]

\* mcolors.ListedColormap(colors)
ListedColormap(st, colors) ==
    AllocObj(st, [cls |-> "Listed", colors |-> colors, sd |-> 0,
                  space |-> "", cyclic |-> "unset"])

\* PerceptuallyUniformColormap.__init__ over the dict sd of the store: the
\* dict itself gets its gamma1 and gamma2 entries (re)assigned, and the new
\* map keeps a reference to it
PerceptuallyUniformColormap(st, sd, space, gamma, gamma1, gamma2) ==
    LET g1 == _default(gamma, gamma1)
        g2 == _default(gamma, gamma2)
        e  == st.dicts[sd]
        e1 == [e EXCEPT
                 !.gamma1 = IF g1 # None THEN Scalar(g1)
                            ELSE IF e.gamma1 # NoGamma THEN e.gamma1
                            ELSE Scalar(1),
                 !.gamma2 = IF g2 # None THEN Scalar(g2)
                            ELSE IF e.gamma2 # NoGamma THEN e.gamma2
                            ELSE Scalar(1)]
    IN  AllocObj([st EXCEPT !.dicts[sd] = e1],
                 [cls |-> "PU", colors |-> <<>>, sd |-> sd,
                  space |-> _get_space(space), cyclic |-> "unset"])

\* PerceptuallyUniformColormap._resample: a new map over the SAME dict
_resample(st, id) ==
    PerceptuallyUniformColormap(st, st.objs[id].sd, st.objs[id].space,
                                None, None, None)

\* the object reversed() returned, put on the heap (a perceptually uniform
\* one with the new dict reversed() built)
AllocValue(st, v) ==
    IF v.cls = "Listed" THEN ListedColormap(st, v.colors)
    ELSE LET a == AllocDict(st, v.segmentdata)
         IN  AllocObj(a.st, [cls |-> "PU", colors |-> <<>>, sd |-> a.id,
                             space |-> v.space, cyclic |-> "unset"])

no_name == <<"n","o","_","n","a","m","e">>

\* a positional argument of Colormap or Cycle: a str, or a list of colors
StrArg(s) == [kind |-> "str", s |-> s, colors |-> <<>>]

ListArg(colors) == [kind |-> "list", s |-> <<>>, colors |-> colors]

\* Colormap, the loop over the positional arguments: the instance the
\* argument stands for, [st, id]; a registered name gives the registered
\* object itself (a new one when the lookup reversed it), a list of colors a
\* new ListedColormap, and id is 0 for what Colormap rejects
ColormapResolve(d, st, arg) ==
    LET got == __getitem__(d, st, arg.s)
    IN  IF arg.kind = "str" /\ __contains__(d, st, arg.s)
        THEN IF got.ref # 0 THEN [st |-> st, id |-> got.ref]
             ELSE AllocValue(st, got.val)
        ELSE IF arg.kind = "list" THEN ListedColormap(st, arg.colors)
        ELSE [st |-> st, id |-> 0]

\* Colormap, the gamma override on the resampled map rs of the perceptually
\* uniform map o1: the entries of rs's _segmentdata, which is o1's, are
\* assigned, and the _cyclic attribute is copied
ColormapOverride(o1, rs, g1, g2) ==
    [st |-> [rs.st EXCEPT
               !.objs[rs.id].cyclic = IF o1.cyclic = "unset" THEN "False"
                                      ELSE o1.cyclic,
               !.dicts[o1.sd] =
                   [@ EXCEPT !.gamma1 = IF Truthy(g1) THEN Scalar(g1) ELSE @,
                             !.gamma2 = IF Truthy(g2) THEN Scalar(g2) ELSE @]],
     id |-> rs.id]

\* Colormap, the branch on the class of the instance r1: a
\* LinearSegmentedColormap is resampled and its gammas overridden, a
\* ListedColormap is taken as it is
ColormapGammas(r1, gamma, gamma1, gamma2) ==
    IF r1.id = 0 THEN r1
    ELSE IF r1.st.objs[r1.id].cls = "PU"
    THEN ColormapOverride(r1.st.objs[r1.id], _resample(r1.st, r1.id),
                          _default(gamma, gamma1), _default(gamma, gamma2))
    ELSE r1

\* Colormap, its end: cmap._cyclic = False when the map r2 has no such
\* attribute, and mcm.cmap_d[name] = cmap
ColormapRegister(d, st, name, r2) ==
    IF r2.id = 0
    THEN [exc |-> "ValueError", d |-> d, st |-> st, id |-> 0]
    ELSE [exc |-> "",
          d   |-> __setitem__(d, name, r2.id),
          st  |-> [r2.st EXCEPT !.objs[r2.id].cyclic =
                                    IF @ = "unset" THEN "False" ELSE @],
          id  |-> r2.id]

\* Colormap(arg, name=name, gamma=gamma, gamma1=gamma1, gamma2=gamma2) with
\* the other keywords at their defaults: [exc, d, st, id], the registry and
\* the store after the call and the identity of the map returned
Colormap(d, st, arg, name, gamma, gamma1, gamma2) ==
    ColormapRegister(d, st, IF name = <<>> THEN no_name ELSE name,
        ColormapGammas(ColormapResolve(d, st, arg), gamma, gamma1, gamma2))

\* Cycle, after its call c of Colormap returned a ListedColormap:
\* cmap.colors = cmap.colors[:samples] and mcm.cmap_d[name] = cmap
CycleSamples(c, samples, name) ==
    IF c.exc # "" THEN c
    ELSE [exc |-> "",
          d   |-> __setitem__(c.d, name, c.id),
          st  |-> [c.st EXCEPT !.objs[c.id].colors = PySlice(@, None, samples)],
          id  |-> c.id]

\* Cycle(arg, samples=samples, name=name) for an argument Colormap resolves
\* to a ListedColormap: [exc, d, st, id]
Cycle(d, st, arg, samples, name) ==
    CycleSamples(Colormap(d, st, arg, <<>>, None, None, None), samples,
                 IF name = <<>> THEN no_name ELSE name)

-----------------------------------------------------------------------------
(* BinNorm and its pre-normalizers.  Levels and data values are rationals; *)
(* a NaN data value is not among the inputs.                               *)

\* np.searchsorted(a, v): the number of entries of the increasing a that are
\* less than v, which is the 0-based index where v would be inserted
searchsorted(a, v) == Cardinality({j \in 1..Len(a) : RLt(a[j], v)})

\* mcolors.Normalize() after its first call on levels set vmin and vmax to
\* their least and greatest entry: (v - vmin)/(vmax - vmin)
Normalize(levels, v) ==
    RDiv(RSub(v, levels[1]), RSub(levels[Len(levels)], levels[1]))

\* LinearSegmentedNorm(levels).__call__(v): linear between adjacent levels,
\* level i (0-based) going to i/(len(levels) - 1)
LinearSegmentedNorm(levels, v) ==
    LET n    == Len(levels)
        ind0 == searchsorted(levels, v)
        ind  == IF ind0 = 0 THEN 1 ELSE IF ind0 = n THEN n - 1 ELSE ind0
        y(i) == Rat(i, n - 1)
        distance == RDiv(RSub(v, levels[ind]),
                         RSub(levels[ind + 1], levels[ind]))
    IN  RAdd(RMul(distance, RSub(y(ind), y(ind - 1))), y(ind - 1))

\* self._norm(v) for the pre-normalizer of the given kind
PreNorm(kind, levels, v) ==
    IF kind = "segments" THEN LinearSegmentedNorm(levels, v)
    ELSE Normalize(levels, v)

\* the least and the greatest entry of a non-empty sequence of rationals
RMin(s) == s[CHOOSE i \in 1..Len(s) : \A j \in 1..Len(s) : RLe(s[i], s[j])]

RMax(s) == s[CHOOSE i \in 1..Len(s) : \A j \in 1..Len(s) : RLe(s[j], s[i])]

\* y[np.isfinite(y)]
RECURSIVE FiniteOnly(_)
FiniteOnly(s) ==
    IF s = <<>> THEN <<>>
    ELSE IF IsFinite(Head(s)) THEN <<Head(s)>> \o FiniteOnly(Tail(s))
    ELSE FiniteOnly(Tail(s))

\* offset + scale*y, entry by entry
RECURSIVE Rescale(_, _, _)
Rescale(offset, scale, s) ==
    IF s = <<>> THEN <<>>
    ELSE <<RAdd(offset, RMul(scale, Head(s)))>> \o Rescale(offset, scale, Tail(s))

Extends == {"neither", "min", "max", "both"}

\* the position table of BinNorm.__init__ from the normalized levels x_b
BinTable(x_b, n, step, extend) ==
    LET x_m    == [j \in 1..(Len(x_b) - 1) |->
                      RDiv(RAdd(x_b[j + 1], x_b[j]), R(2))]
        lo     == RMin(x_m)
        hi     == RMax(x_m)
        y      == FiniteOnly([j \in 1..Len(x_m) |->
                                 RDiv(RSub(x_m[j], lo), RSub(hi, lo))])
        eps    == RDiv(step, R(n))
        offset == IF extend \in {"min", "both"} THEN eps ELSE R(0)
        scale0 == IF extend \in {"min", "both"} THEN RSub(R(1), eps) ELSE R(1)
        scale  == IF extend \in {"max", "both"} THEN RSub(scale0, eps)
                  ELSE scale0
    IN  <<R(0)>> \o Rescale(offset, scale, y) \o <<R(1)>>

\* vmin=None, vmax=None
NoLimit == <<>>

\* no normalizer yet.  After a constructor call exc is "" and the record is
\* the instance, or exc is the error raised, there is no instance, and the
\* record keeps the arguments of the call.
NoNorm ==
    [cls |-> "", exc |-> "none", levels |-> <<>>, kind |-> "", step |-> R(1),
     extend |-> "", x_b |-> <<>>, y |-> <<>>,
     vmin |-> NoLimit, vmax |-> NoLimit, midpoint |-> NoLimit]

\* BinNorm(levels, norm=kind, step=step, extend=extend): the instance, or
\* the error the constructor raises
BinNorm(levels, kind, step, extend) ==
    IF Len(levels) <= 1
       \/ \E j \in 1..(Len(levels) - 1) : RLe(levels[j + 1], levels[j])
       \/ extend \notin Extends
    THEN [NoNorm EXCEPT !.cls = "BinNorm", !.exc = "ValueError",
                        !.levels = levels, !.extend = extend]
    ELSE [cls |-> "BinNorm", exc |-> "", levels |-> levels, kind |-> kind,
          step |-> step, extend |-> extend,
          x_b |-> [j \in 1..Len(levels) |-> PreNorm(kind, levels, levels[j])],
          y   |-> BinTable([j \in 1..Len(levels) |->
                               PreNorm(kind, levels, levels[j])],
                           Len(levels), step, extend),
          vmin |-> RMin(levels), vmax |-> RMax(levels),
          midpoint |-> NoLimit]

NoOut == [op |-> "", exc |-> "none", xq |-> R(0), idx |-> 0, val |-> R(0)]

\* BinNorm.__call__(xq) on the instance n: the index searchsorted gives and
\* the table entry at it, an IndexError when the table has no such entry
BinNormCall(n, xq) ==
    LET idx == searchsorted(n.x_b, PreNorm(n.kind, n.levels, xq))
    IN  IF idx + 1 > Len(n.y)
        THEN [NoOut EXCEPT !.op = "call", !.exc = "IndexError", !.xq = xq,
                           !.idx = idx]
        ELSE [op |-> "call", exc |-> "", xq |-> xq, idx |-> idx,
              val |-> n.y[idx + 1]]

\* an inverse that returns its argument
inverse_returns(n, yq) ==
    [NoOut EXCEPT !.op = "inverse", !.exc = "", !.xq = yq, !.val = yq]

\* BinNorm.inverse(yq)
inverse(n, yq) ==
    [NoOut EXCEPT !.op = "inverse", !.exc = "RuntimeError", !.xq = yq]

\* a constructor that takes any levels: the check of their number and order
\* left out
LinearSegmentedNormUnchecked(levels) ==
    [NoNorm EXCEPT !.cls = "LinearSegmentedNorm", !.exc = "",
                   !.levels = levels]

\* LinearSegmentedNorm(levels): the instance with _x = levels and
\* _y = np.linspace(0, 1, len(levels)), or the error the constructor raises
LinearSegmentedNormInit(levels) ==
    IF Len(levels) <= 1
       \/ \E j \in 1..(Len(levels) - 1) : RLe(levels[j + 1], levels[j])
    THEN [NoNorm EXCEPT !.cls = "LinearSegmentedNorm", !.exc = "ValueError",
                        !.levels = levels]
    ELSE [NoNorm EXCEPT !.cls = "LinearSegmentedNorm", !.exc = "",
                        !.levels = levels,
                        !.y = [j \in 1..Len(levels) |->
                                  Rat(j - 1, Len(levels) - 1)],
                        !.vmin = RMin(levels), !.vmax = RMax(levels)]

\* the interpolation shared by the __call__ and inverse methods: vq taken
\* from the scale x to the scale y, linearly in the segment searchsorted
\* finds, the first segment below x and the last one above it
Interpolate(x, y, vq) ==
    LET n    == Len(x)
        ind0 == searchsorted(x, vq)
        ind  == IF ind0 = 0 THEN 1 ELSE IF ind0 = n THEN n - 1 ELSE ind0
        distance == RDiv(RSub(vq, x[ind]), RSub(x[ind + 1], x[ind]))
    IN  RAdd(RMul(distance, RSub(y[ind + 1], y[ind])), y[ind])

\* LinearSegmentedNorm.__call__(xq) on the instance n
LinearSegmentedNormCall(n, xq) ==
    [NoOut EXCEPT !.op = "call", !.exc = "", !.xq = xq,
                  !.val = LinearSegmentedNorm(n.levels, xq)]

\* an inverse that is linear from the first level to the last
InverseLinear(n, yq) ==
    [NoOut EXCEPT !.op = "inverse", !.exc = "", !.xq = yq,
                  !.val = RAdd(n.levels[1],
                               RMul(yq, RSub(n.levels[Len(n.levels)],
                                             n.levels[1])))]

\* LinearSegmentedNorm.inverse(yq) on the instance n
LinearSegmentedNormInverse(n, yq) ==
    [NoOut EXCEPT !.op = "inverse", !.exc = "", !.xq = yq,
                  !.val = Interpolate(n.y, n.levels, yq)]

\* MidpointNorm(midpoint, vmin, vmax): the instance
MidpointNorm(midpoint, vmin, vmax) ==
    [NoNorm EXCEPT !.cls = "MidpointNorm", !.exc = "",
                   !.midpoint = midpoint, !.vmin = vmin, !.vmax = vmax]

\* MidpointNorm.__call__(xq) on the instance n.  The test of the midpoint
\* compares vmin first and vmax only when that comparison is false, and a
\* comparison with None is a TypeError.
MidpointNormCall(n, xq) ==
    IF n.vmin = NoLimit
    THEN [NoOut EXCEPT !.op = "call", !.exc = "TypeError", !.xq = xq]
    ELSE IF RLe(n.midpoint, n.vmin)
    THEN [NoOut EXCEPT !.op = "call", !.exc = "ValueError", !.xq = xq]
    ELSE IF n.vmax = NoLimit
    THEN [NoOut EXCEPT !.op = "call", !.exc = "TypeError", !.xq = xq]
    ELSE IF RLe(n.vmax, n.midpoint)
    THEN [NoOut EXCEPT !.op = "call", !.exc = "ValueError", !.xq = xq]
    ELSE [NoOut EXCEPT !.op = "call", !.exc = "", !.xq = xq,
                       !.val = Interpolate(<<n.vmin, n.midpoint, n.vmax>>,
                                           <<R(0), Rat(1, 2), R(1)>>, xq)]

-----------------------------------------------------------------------------
(* The registry as a state machine *)

RdBu == <<"R","d","B","u">>

BuRd == <<"B","u","R","d">>

\* the colors of the discrete maps callers bring
BaseColors == <<"c1", "c2", "c3">>

\* the segment data of the perceptually uniform maps callers bring
BaseDict ==
    [hue        |-> << <<R(0), 0, 0>>, <<R(1), 240, 240>> >>,
     saturation |-> << <<R(0), 100, 100>>, <<R(1), 50, 50>> >>,
     luminance  |-> << <<R(0), 100, 100>>, <<Rat(1, 2), 60, 50>>,
                       <<R(1), 20, 20>> >>,
     gamma1     |-> NoGamma,
     gamma2     |-> NoGamma]

\* a map a caller built: a ListedColormap, or a
\* PerceptuallyUniformColormap(name, segmentdata, space='hsluv')
NewObject(st, kind) ==
    IF kind = "Listed" THEN ListedColormap(st, BaseColors)
    ELSE LET a == AllocDict(st, BaseDict)
         IN  PerceptuallyUniformColormap(a.st, a.id, "hsluv", None, None, None)

\* CmapDict.__init__(kwargs), from the i-th item of kwargs on; an item is
\* <<key, kind of map>>
RECURSIVE CmapDictInit(_, _, _, _)
CmapDictInit(kwargs, i, d, st) ==
    IF i > Len(kwargs) THEN Reachable(d, st, 0)
    ELSE LET key == kwargs[i][1]
             a   == NewObject(st, kwargs[i][2])
         IN  IF Last2(key) # SuffixR
             THEN CmapDictInit(kwargs, i + 1,
                      [k \in DOMAIN d \cup {lower(key)} |->
                          IF k = lower(key) THEN a.id ELSE d[k]], a.st)
             ELSE CmapDictInit(kwargs, i + 1, d, st)

EmptyStore == [objs |-> <<>>, dicts |-> <<>>]

\* the mappings the registry is constructed from
InitMappings ==
    { <<>>,
      << <<RdBu, "Listed">>, <<RdBu \o SuffixR, "Listed">> >>,
      << <<RdBu, "PU">> >>,
      << <<BuRd, "Listed">>, <<lower(RdBu) \o <<"_","R">>, "PU">> >> }

\* the keys of item assignments and the keys looked up
SetKeys == {RdBu, BuRd, RdBu \o <<"_","R">>}

LookupKeys ==
    {RdBu, lower(RdBu), BuRd, <<"B","U","R","D">>,
     RdBu \o SuffixR, RdBu \o <<"_","R">>, lower(BuRd) \o SuffixR,
     <<"b","U","r","D","_","R">>, lower(RdBu) \o SuffixR \o <<"_","R">>,
     no_name}

\* the names given to Colormap and Cycle (<<>> is no name), their positional
\* arguments, the gamma, gamma1 and gamma2 keywords, the samples keyword and
\* the keys looked up between the calls
CallNames == {<<>>, lower(RdBu) \o SuffixR, BuRd}

CallArgs == {StrArg(RdBu), StrArg(lower(BuRd)), ListArg(<<"c4", "c5">>)}

GammaArgs == {<<None, None, None>>, <<2, None, None>>, <<None, None, 3>>}

SampleArgs == {None, 2}

CallLookupKeys == {RdBu, lower(RdBu) \o SuffixR, no_name}

NoCall ==
    [op |-> "", key |-> <<>>, arg |-> StrArg(<<>>), samples |-> None,
     gammas |-> <<None, None, None>>, exc |-> "", ref |-> 0, val |-> NoValue]

\* mcm.cmap_d = CmapDict(kwargs), before any call
InitFrom(kwargs) ==
    \E c \in {CmapDictInit(kwargs, 1, <<>>, EmptyStore)} :
        /\ cmap_d = c.d
        /\ objs = c.st.objs
        /\ dicts = c.st.dicts
        /\ ret = NoCall
        /\ norm = NoNorm
        /\ out = NoOut

RegInit == \E kwargs \in InitMappings : InitFrom(kwargs)

\* mcm.cmap_d[key] = cmap, for a map the caller built
SetItem(key, kind) ==
    \E a \in {NewObject(Store, kind)} :
    \E n \in {Reachable(__setitem__(cmap_d, key, a.id), a.st, a.id)} :
        /\ cmap_d' = n.d
        /\ objs' = n.st.objs
        /\ dicts' = n.st.dicts
        /\ ret' = [NoCall EXCEPT !.op = "setitem", !.key = key,
                                 !.ref = n.ref, !.val = Value(a.st, a.id)]
        /\ UNCHANGED <<norm, out>>

\* mcm.cmap_d[key]
GetItem(key) ==
    \E g \in {__getitem__(cmap_d, Store, key)} :
        /\ ret' = [NoCall EXCEPT !.op = "getitem", !.key = key,
                                 !.exc = g.exc, !.ref = g.ref, !.val = g.val]
        /\ UNCHANGED <<cmap_d, objs, dicts, norm, out>>

\* mcm.cmap_d.pop(key) and mcm.cmap_d.pop(key, None)
Pop(key, hasdefault) ==
    \E p \in {pop(cmap_d, Store, key, hasdefault)} :
    \E n \in {Reachable(p.d, Store, 0)} :
        /\ cmap_d' = n.d
        /\ objs' = n.st.objs
        /\ dicts' = n.st.dicts
        /\ ret' = [NoCall EXCEPT !.op = "pop", !.key = key, !.exc = p.exc,
                                 !.val = p.val]
        /\ UNCHANGED <<norm, out>>

\* Colormap(arg, name=name, gamma=g[1], gamma1=g[2], gamma2=g[3])
CallColormap(arg, name, g) ==
    \E c \in {Colormap(cmap_d, Store, arg, name, g[1], g[2], g[3])} :
    \E n \in {Reachable(c.d, c.st, c.id)} :
        /\ cmap_d' = n.d
        /\ objs' = n.st.objs
        /\ dicts' = n.st.dicts
        /\ ret' = [NoCall EXCEPT
                     !.op = "Colormap",
                     !.key = IF name = <<>> THEN no_name ELSE name,
                     !.arg = arg, !.gammas = g, !.exc = c.exc, !.ref = n.ref,
                     !.val = IF c.exc = "" THEN Value(c.st, c.id) ELSE NoValue]
        /\ UNCHANGED <<norm, out>>

\* Cycle(arg, samples=samples, name=name), where arg stands for a discrete map
CallCycle(arg, samples, name) ==
    \E c \in {Cycle(cmap_d, Store, arg, samples, name)} :
    \E n \in {Reachable(c.d, c.st, c.id)} :
        /\ c.exc = "" => c.st.objs[c.id].cls = "Listed"
        /\ cmap_d' = n.d
        /\ objs' = n.st.objs
        /\ dicts' = n.st.dicts
        /\ ret' = [NoCall EXCEPT
                     !.op = "Cycle",
                     !.key = IF name = <<>> THEN no_name ELSE name,
                     !.arg = arg, !.samples = samples, !.exc = c.exc,
                     !.ref = n.ref,
                     !.val = IF c.exc = "" THEN Value(c.st, c.id) ELSE NoValue]
        /\ UNCHANGED <<norm, out>>

RegNext ==
    \/ \E key \in SetKeys, kind \in {"Listed", "PU"} : SetItem(key, kind)
    \/ \E key \in LookupKeys : GetItem(key)
    \/ \E key \in LookupKeys, hasdefault \in BOOLEAN : Pop(key, hasdefault)

\* the registry under item assignment, lookup and pop
Spec == RegInit /\ [][RegNext]_vars

\* a registry that holds a discrete and a perceptually uniform map
FactoryInit == InitFrom(<< <<RdBu, "Listed">>, <<BuRd, "PU">> >>)

FactoryNext ==
    \/ \E arg \in CallArgs, name \in CallNames, g \in GammaArgs :
           CallColormap(arg, name, g)
    \/ \E arg \in CallArgs, samples \in SampleArgs, name \in CallNames :
           CallCycle(arg, samples, name)
    \/ \E key \in CallLookupKeys : GetItem(key)

\* the registry under the Colormap and Cycle constructors and lookup
SpecFactory == FactoryInit /\ [][FactoryNext]_vars

-----------------------------------------------------------------------------
(* One BinNorm instance as a state machine *)

\* the greatest level, and the greatest number of levels
MaxVal == 4

MaxLevels == 4

\* the members of a set of integers as levels, in increasing order
RECURSIVE SortedLevels(_)
SortedLevels(S) ==
    IF S = {} THEN <<>>
    ELSE <<R(CHOOSE m \in S : \A k \in S : m <= k)>>
         \o SortedLevels(S \ {CHOOSE m \in S : \A k \in S : m <= k})

\* the strictly increasing level sequences
Increasing ==
    {SortedLevels(S) : S \in {T \in SUBSET (0..MaxVal) :
                                 Cardinality(T) <= MaxLevels}}

\* the level sequences given to the constructors: the strictly increasing
\* ones, the same backwards, and the same with the last level repeated
LevelArgs ==
    Increasing
    \cup {Reverse(s) : s \in Increasing}
    \cup {s \o <<s[Len(s)]>> : s \in {t \in Increasing : Len(t) >= 1}}

\* the data values: the levels, the points halfway between them, and one
\* value on either side
XqArgs == {Rat(k, 2) : k \in (-1)..(2 * MaxVal + 1)}

StepArgs == {Rat(1, 2), R(1)}

NormInit == InitFrom(<<>>)

\* norm = BinNorm(levels, norm=kind, step=step, extend=extend)
Construct(levels, kind, step, extend) ==
    /\ norm.exc = "none"
    /\ norm' = BinNorm(levels, kind, step, extend)
    /\ UNCHANGED <<cmap_d, objs, dicts, ret, out>>

\* norm(xq)
Call(xq) ==
    /\ norm.exc = ""
    /\ out' = BinNormCall(norm, xq)
    /\ UNCHANGED <<cmap_d, objs, dicts, ret, norm>>

\* norm.inverse(yq)
Inverse(yq) ==
    /\ norm.exc = ""
    /\ out' = inverse(norm, yq)
    /\ UNCHANGED <<cmap_d, objs, dicts, ret, norm>>

NormNext ==
    \/ \E levels \in LevelArgs, kind \in {"linear", "segments"},
          step \in StepArgs, extend \in Extends \cup {"up"} :
           Construct(levels, kind, step, extend)
    \/ \E xq \in XqArgs : Call(xq)
    \/ \E yq \in {R(0), Rat(1, 2), R(1)} : Inverse(yq)

\* a BinNorm instance under construction, calls and inverse
SpecNorm == NormInit /\ [][NormNext]_vars

-----------------------------------------------------------------------------
(* _clip_cmap, _shift_cmap on a ListedColormap, and _merge_cmaps.  A       *)
(* call gives [exc, st, id]: the error raised, the store after the call    *)
(* and the identity of the map returned (0 after an error).                *)

\* mcolors.LinearSegmentedColormap(name, segmentdata) over the dict sd
LinearSegmentedColormap(st, sd) ==
    AllocObj(st, [cls |-> "Segmented", colors |-> <<>>, sd |-> sd,
                  space |-> "", cyclic |-> "unset"])

\* _clip_cmap, xyy[i] for a 0-based index i: -1 is the last row
ClipRow(xyy, i) == xyy[IF i < 0 THEN Len(xyy) + i + 1 ELSE i + 1]

\* _clip_cmap, the row put at the limit x between the rows i and i + 1:
\* xyy[i,1:] + (x - xyy[i,0])*(xyy[i+1,1:] - xyy[i,1:])/(xyy[i+1,0] - xyy[i,0])
ClipEdge(a, b, x) ==
    <<x,
      RAdd(a[2], RDiv(RMul(RSub(x, a[1]), RSub(b[2], a[2])), RSub(b[1], a[1]))),
      RAdd(a[3], RDiv(RMul(RSub(x, a[1]), RSub(b[3], a[3])), RSub(b[1], a[1])))>>

\* _clip_cmap, the rows of a channel for the 0-based indices l and r: the
\* rows l..r between the two rows at the limits, x scaled to [0, 1]
ClipRows(ixyy, left, right) ==
    [j \in 1..Len(ixyy) |->
        <<RDiv(RSub(ixyy[j][1], left), RSub(right, left)),
          ixyy[j][2], ixyy[j][3]>>]

\* _clip_cmap, the body of the loop over the channels of a continuous map:
\* [exc, rows, l, r], the clipped rows and the 0-based indices l and r; an
\* index past the last row is an IndexError
ClipChannel(xyy, left, right) ==
    LET xleft  == {j \in 1..Len(xyy) : RLt(left, xyy[j][1])}
        xright == {j \in 1..Len(xyy) : RLt(xyy[j][1], right)}
    IN  IF xleft = {} \/ xright = {}
        THEN [exc |-> "ValueError", rows |-> <<>>, l |-> 0, r |-> 0]
        ELSE \* l = xleft[0] and r = xright[-1]
             LET l == (CHOOSE j \in xleft : \A k \in xleft : j <= k) - 1
                 r == (CHOOSE j \in xright : \A k \in xright : k <= j) - 1
             IN  IF r + 1 >= Len(xyy)
                 THEN [exc |-> "IndexError", rows |-> <<>>, l |-> l, r |-> r]
                 ELSE [exc |-> "",
                       rows |-> ClipRows(
                           <<ClipEdge(ClipRow(xyy, l - 1), ClipRow(xyy, l),
                                      left)>>
                           \o SubSeq(xyy, l + 1, r + 1)
                           \o <<ClipEdge(ClipRow(xyy, r), ClipRow(xyy, r + 1),
                                         right)>>, left, right),
                       l |-> l, r |-> r]

\* a gamma slice that starts one segment late
ClipGammaLate(gamma, l, r) ==
    IF gamma[1] = "array"
    THEN Array(SubSeq(gamma[2], l + 1, r + 1))
    ELSE gamma

\* _clip_cmap, the gamma kept with a channel: gamma[l-1:r+1] of a list
ClipGamma(gamma, l, r) ==
    IF gamma[1] = "array"
    THEN Array(SubSeq(gamma[2],
                      (IF l - 1 < 0 THEN Len(gamma[2]) + l - 1 ELSE l - 1) + 1,
                      r + 1))
    ELSE gamma

\* _clip_cmap, the end: the new map over the clipped channels c of the map
\* id, with the gammas of the saturation and of the luminance
ClipBuild(st, id, c) ==
    LET e    == st.dicts[st.objs[id].sd]
        data == [key \in DOMAIN c |-> c[key].rows]
    IN  IF st.objs[id].cls = "PU"
        THEN PerceptuallyUniformColormap(
                 AllocDict(st, data @@
                     [gamma1 |-> ClipGamma(e.gamma1, c["saturation"].l,
                                           c["saturation"].r),
                      gamma2 |-> ClipGamma(e.gamma2, c["luminance"].l,
                                           c["luminance"].r)]).st,
                 NewId(st.dicts), st.objs[id].space, None, None, None)
        ELSE LinearSegmentedColormap(AllocDict(st, data).st, NewId(st.dicts))

\* _clip_cmap, the outcome for the clipped channels c: every channel has
\* the same first and last x, so the channels that raise raise the same
ClipOutcome(st, id, c) ==
    IF \E key \in DOMAIN c : c[key].exc # ""
    THEN [exc |-> c[CHOOSE key \in DOMAIN c : c[key].exc # ""].exc,
          st |-> st, id |-> 0]
    ELSE [exc |-> ""] @@ ClipBuild(st, id, c)

\* _clip_cmap(cmap, left, right) for a continuous map and left, right not
\* both None
ClipSegments(st, id, left, right) ==
    ClipOutcome(st, id,
        [key \in DOMAIN st.dicts[st.objs[id].sd] \ {"gamma1", "gamma2"} |->
            ClipChannel(st.dicts[st.objs[id].sd][key],
                        IF left = NoLimit THEN R(0) ELSE left,
                        IF right = NoLimit \/ right = R(0) THEN R(1)
                        ELSE right)])

\* _clip_cmap(cmap, left, right).  For a ListedColormap left and right are
\* in {None} \cup Nat, and a list slice takes what there is of the range;
\* for a continuous map they are rationals, and None is NoLimit
_clip_cmap(st, id, left, right) ==
    IF st.objs[id].cls = "Listed"
    THEN (IF left = None /\ right = None
          THEN [exc |-> "", st |-> st, id |-> id]
          ELSE [exc |-> ""] @@ ListedColormap(st, PySlice(st.objs[id].colors,
                                                         left, right)))
    ELSE IF left = NoLimit /\ right = NoLimit
    THEN [exc |-> "", st |-> st, id |-> id]
    ELSE ClipSegments(st, id, left, right)

\* a shift that rotates the colors to the right
_shift_cmap_right(st, id, shift) ==
    IF shift = 0 \/ st.objs[id].colors = <<>>
    THEN [exc |-> "", st |-> st, id |-> id]
    ELSE [exc |-> ""]
         @@ ListedColormap(st,
                PySlice(st.objs[id].colors,
                        (-shift) % Len(st.objs[id].colors), None)
                \o PySlice(st.objs[id].colors, None,
                           (-shift) % Len(st.objs[id].colors)))

\* _shift_cmap(cmap, shift) for a ListedColormap and an integer shift
_shift_cmap(st, id, shift) ==
    IF shift = 0 THEN [exc |-> "", st |-> st, id |-> id]
    ELSE IF st.objs[id].colors = <<>>
    THEN [exc |-> "ZeroDivisionError", st |-> st, id |-> 0]
    ELSE [exc |-> ""]
         @@ ListedColormap(st,
                PySlice(st.objs[id].colors,
                        shift % Len(st.objs[id].colors), None)
                \o PySlice(st.objs[id].colors, None,
                           shift % Len(st.objs[id].colors)))

\* the test of the types alone
MergeCheckTypes(st, ids) ==
    IF Cardinality({st.objs[ids[i]].cls : i \in 1..Len(ids)}) # 1
    THEN "ValueError" ELSE ""

\* _merge_cmaps, its two tests: the maps are of one type, and perceptually
\* uniform maps of one colorspace
MergeCheck(st, ids) ==
    IF Cardinality({st.objs[ids[i]].cls : i \in 1..Len(ids)}) # 1
    THEN "ValueError"
    ELSE IF /\ st.objs[ids[1]].cls = "PU"
            /\ Cardinality({st.objs[ids[i]].space : i \in 1..Len(ids)}) > 1
    THEN "ValueError"
    ELSE ""

RECURSIVE Sum(_)
Sum(s) == IF s = <<>> THEN 0 ELSE Head(s) + Sum(Tail(s))

\* x0 = np.concatenate([[0], np.cumsum(ratios)]) of the normalized ratios
\* of n maps; a ratios that is empty stands for the default ratios=1
Cumulative(ratios, n) ==
    LET rs == IF ratios = <<>> THEN [j \in 1..n |-> 1] ELSE ratios
    IN  [i \in 1..(n + 1) |-> Rat(Sum(SubSeq(rs, 1, i - 1)), Sum(rs))]

\* data[:,0] = x + w*data[:,0]
ScaleRows(rows, x, w) ==
    [j \in 1..Len(rows) |->
        <<RAdd(x, RMul(w, rows[j][1])), rows[j][2], rows[j][3]>>]

\* the arrays put end to end as they are
RECURSIVE ConcatDatas(_)
ConcatDatas(datas) ==
    IF Len(datas) = 1 THEN datas[1]
    ELSE datas[1] \o ConcatDatas(Tail(datas))

\* the loop over the junctions and np.concatenate: the last row of an array
\* takes the third column of the first row of the next array, which loses
\* that row
RECURSIVE JoinDatas(_)
JoinDatas(datas) ==
    IF Len(datas) = 1 THEN datas[1]
    ELSE [datas[1] EXCEPT ![Len(datas[1])][3] = datas[2][1][3]]
         \o JoinDatas(<<Tail(datas[2])>> \o Tail(Tail(datas)))

\* the merged rows of the channel key, with x divided by its maximum
MergeChannel(st, ids, x0, key) ==
    LET data == JoinDatas([i \in 1..Len(ids) |->
                    ScaleRows(st.dicts[st.objs[ids[i]].sd][key], x0[i],
                              RSub(x0[i + 1], x0[i]))])
    IN  [j \in 1..Len(data) |->
            <<RDiv(data[j][1], RMax([k \in 1..Len(data) |-> data[k][1]])),
              data[j][2], data[j][3]>>]

\* the merged gamma list of key, from map i on: a gamma that is a float is
\* repeated once for every segment of the channel it belongs to
RECURSIVE MergeGammas(_, _, _, _, _)
MergeGammas(st, ids, key, channel, i) ==
    IF i > Len(ids) THEN <<>>
    ELSE LET e == st.dicts[st.objs[ids[i]].sd]
         IN  (IF e[key][1] = "array" THEN e[key][2]
              ELSE [j \in 1..(Len(e[channel]) - 1) |-> e[key][2][1]])
             \o MergeGammas(st, ids, key, channel, i + 1)

\* the segmentdata _merge_cmaps builds for continuous maps
MergeDict(st, ids, ratios) ==
    LET keys == DOMAIN st.dicts[st.objs[ids[1]].sd] \ {"gamma1", "gamma2"}
        x0   == Cumulative(ratios, Len(ids))
        data == [key \in keys |-> MergeChannel(st, ids, x0, key)]
    IN  IF st.objs[ids[1]].cls # "PU" THEN data
        ELSE data
             @@ [gamma1 |-> Array(MergeGammas(st, ids, "gamma1",
                                              "saturation", 1)),
                 gamma2 |-> Array(MergeGammas(st, ids, "gamma2",
                                              "luminance", 1))]

RECURSIVE MergeColors(_, _, _)
MergeColors(st, ids, i) ==
    IF i > Len(ids) THEN <<>>
    ELSE st.objs[ids[i]].colors \o MergeColors(st, ids, i + 1)

\* _merge_cmaps(*imaps, ratios=ratios) for the maps ids of the store, with
\* as many ratios as maps when ratios are given
_merge_cmaps(st, ids, ratios) ==
    IF Len(ids) = 1 THEN [exc |-> "", st |-> st, id |-> ids[1]]
    ELSE IF MergeCheck(st, ids) # ""
    THEN [exc |-> MergeCheck(st, ids), st |-> st, id |-> 0]
    ELSE IF st.objs[ids[1]].cls = "Listed"
    THEN [exc |-> ""] @@ ListedColormap(st, MergeColors(st, ids, 1))
    ELSE LET a == AllocDict(st, MergeDict(st, ids, ratios))
         IN  [exc |-> ""]
             @@ (IF st.objs[ids[1]].cls = "PU"
                 THEN PerceptuallyUniformColormap(a.st, a.id,
                          st.objs[ids[1]].space, None, None, None)
                 ELSE LinearSegmentedColormap(a.st, a.id))

-----------------------------------------------------------------------------
(* make_mapping_array.  The data is a list of rows of floats, all of one   *)
(* width, or a callable, which is taken to be the function that returns    *)
(* its argument; gamma is a float or a non-empty list of floats, integers  *)
(* where they are valid so that the powers are exact.                      *)

Table(rows) == [kind |-> "table", rows |-> rows]

Callable == [kind |-> "callable", rows |-> <<>>]

\* a**n for an integer n >= 0
RECURSIVE RPow(_, _)
RPow(a, n) == IF n = 0 THEN R(1) ELSE RMul(a, RPow(a, n - 1))

\* np.linspace(0, 1, N)[i - 1]
linspace(N, i) == IF N = 1 THEN R(0) ELSE Rat(i - 1, N - 1)

\* the outcome of a call that raised exc
MappingError(exc, N, data, gamma, reverse) ==
    [op |-> "make_mapping_array", exc |-> exc, N |-> N, data |-> data,
     gamma |-> gamma, reverse |-> reverse, lut |-> <<>>]

\* the tests of gamma and data, in the order of the code: the error raised,
\* "" when the input passes
MappingCheck(data, gamma) ==
    LET gammas == gamma[2]
        rows   == data.rows
    IN  IF \E j \in 1..Len(gammas) :
               RLt(gammas[j], Rat(1, 100)) \/ RLt(R(10), gammas[j])
        THEN "ValueError"
        ELSE IF data.kind = "callable"
        THEN (IF Len(gammas) > 1 THEN "ValueError" ELSE "")
        ELSE IF rows = <<>> \/ \E j \in 1..Len(rows) : Len(rows[j]) # 3
        THEN "ValueError"
        ELSE IF Len(gammas) # 1 /\ Len(gammas) # Len(rows) - 1
        THEN "ValueError"
        ELSE IF rows[1][1] # R(0) \/ rows[Len(rows)][1] # R(1)
        THEN "ValueError"
        ELSE IF \E j \in 1..(Len(rows) - 1) : RLt(rows[j + 1][1], rows[j][1])
        THEN "ValueError"
        ELSE ""

\* entry i (1 < i < N) of the table: the row ind the scaled coordinate
\* falls before, the distance from the row to its left, weighted by the
\* gamma of that segment, and the interpolation between the two rows
MappingEntry(N, rows, gammas, reverse, i) ==
    LET x(j)  == RMul(rows[j][1], R(N - 1))
        y0(j) == rows[j][2]
        y1(j) == rows[j][3]
        ind(k) == Cardinality({j \in 1..Len(rows) : RLt(x(j), R(k - 1))})
        gs    == IF Len(gammas) = 1 THEN [j \in 1..Len(rows) |-> gammas[1]]
                 ELSE gammas
        g     == gs[ind(i)]
        ci    == Cardinality({k \in 2..(N - 1) : ind(k) = ind(i)})
        d     == RDiv(RSub(R(i - 1), x(ind(i))),
                      RSub(x(ind(i) + 1), x(ind(i))))
        ir0   == ci > 1 /\ RLt(y0(ind(i) + 1), y1(ind(i)))
        ir    == IF reverse THEN ~ir0 ELSE ir0
        dg    == IF g = R(1) THEN d
                 ELSE IF ir THEN RSub(R(1), RPow(RSub(R(1), d), g[1]))
                 ELSE RPow(d, g[1])
    IN  RAdd(RMul(dg, RSub(y0(ind(i) + 1), y1(ind(i)))), y1(ind(i)))

\* make_mapping_array(N, data, gamma, reverse): the table, or the error
make_mapping_array(N, data, gamma, reverse) ==
    IF MappingCheck(data, gamma) # ""
    THEN MappingError(MappingCheck(data, gamma), N, data, gamma, reverse)
    ELSE IF data.kind = "callable"
    THEN [MappingError("", N, data, gamma, reverse) EXCEPT
             !.lut = [i \in 1..N |-> RPow(linspace(N, i), gamma[2][1][1])]]
    ELSE IF N = 0
    THEN MappingError("IndexError", N, data, gamma, reverse)
    ELSE [MappingError("", N, data, gamma, reverse) EXCEPT
             !.lut = [i \in 1..N |->
                         IF i = N THEN data.rows[Len(data.rows)][2]
                         ELSE IF i = 1 THEN data.rows[1][3]
                         ELSE MappingEntry(N, data.rows, gamma[2],
                                           reverse, i)]]

-----------------------------------------------------------------------------
(* The normalizers as a state machine *)

\* the arguments of inverse: the quarters from -1/4 to 5/4
YqArgs == {Rat(k, 4) : k \in (-1)..5}

\* the midpoint, and the limits vmin and vmax with their default None
MidpointArgs == {R(v) : v \in 0..MaxVal}

LimitArgs == {NoLimit} \cup {R(v) : v \in 0..MaxVal}

\* norm = LinearSegmentedNorm(levels)
SegConstruct(levels) ==
    /\ norm.exc = "none"
    /\ norm' = LinearSegmentedNormInit(levels)
    /\ UNCHANGED <<cmap_d, objs, dicts, ret, out>>

\* norm(xq) on a LinearSegmentedNorm
SegCall(xq) ==
    /\ norm.cls = "LinearSegmentedNorm"
    /\ norm.exc = ""
    /\ out' = LinearSegmentedNormCall(norm, xq)
    /\ UNCHANGED <<cmap_d, objs, dicts, ret, norm>>

\* norm.inverse(yq) on a LinearSegmentedNorm
SegInverse(yq) ==
    /\ norm.cls = "LinearSegmentedNorm"
    /\ norm.exc = ""
    /\ out' = LinearSegmentedNormInverse(norm, yq)
    /\ UNCHANGED <<cmap_d, objs, dicts, ret, norm>>

\* norm = MidpointNorm(midpoint, vmin, vmax)
MidConstruct(midpoint, vmin, vmax) ==
    /\ norm.exc = "none"
    /\ norm' = MidpointNorm(midpoint, vmin, vmax)
    /\ UNCHANGED <<cmap_d, objs, dicts, ret, out>>

\* norm(xq) on a MidpointNorm
MidCall(xq) ==
    /\ norm.cls = "MidpointNorm"
    /\ norm.exc = ""
    /\ out' = MidpointNormCall(norm, xq)
    /\ UNCHANGED <<cmap_d, objs, dicts, ret, norm>>

NormalizersNext ==
    \/ \E levels \in LevelArgs, kind \in {"linear", "segments"},
          step \in StepArgs, extend \in Extends \cup {"up"} :
           Construct(levels, kind, step, extend)
    \/ \E levels \in LevelArgs : SegConstruct(levels)
    \/ \E xq \in XqArgs : SegCall(xq)
    \/ \E yq \in YqArgs \cup {v \in {out.val} : out.op = "call"} :
           SegInverse(yq)
    \/ \E midpoint \in MidpointArgs, vmin \in LimitArgs, vmax \in LimitArgs :
           MidConstruct(midpoint, vmin, vmax)
    \/ \E xq \in XqArgs : MidCall(xq)

\* the constructors of the three normalizers, and the calls and inverse of
\* the pre-normalizers
SpecNormalizers == NormInit /\ [][NormalizersNext]_vars

-----------------------------------------------------------------------------
(* make_mapping_array as a state machine *)

\* the greatest table length
MaxN == 4

\* the data: a callable, two tables that pass the tests (one with a jump at
\* an interior point, one with a repeated x), and tables that fail them
DataArgs ==
    { Callable,
      Table(<< <<R(0), R(0), R(0)>>, <<R(1), R(1), R(1)>> >>),
      Table(<< <<R(0), R(2), R(2)>>, <<Rat(1, 4), R(1), R(3)>>,
               <<R(1), R(0), R(0)>> >>),
      Table(<< <<R(0), R(0), R(0)>>, <<Rat(1, 2), R(1), R(1)>>,
               <<Rat(1, 2), R(2), R(2)>>, <<R(1), R(3), R(3)>> >>),
      Table(<< <<Rat(1, 4), R(0), R(0)>>, <<R(1), R(1), R(1)>> >>),
      Table(<< <<R(0), R(0), R(0)>>, <<Rat(3, 4), R(1), R(1)>> >>),
      Table(<< <<R(0), R(0), R(0)>>, <<Rat(3, 4), R(1), R(1)>>,
               <<Rat(1, 2), R(2), R(2)>>, <<R(1), R(3), R(3)>> >>),
      Table(<< <<R(0), R(0)>>, <<R(1), R(1)>> >>),
      Table(<< <<R(0), R(0), R(0)>> >>),
      Table(<<>>) }

\* the gammas: floats and lists inside and outside [0.01, 10]
MappingGammas ==
    { Scalar(R(1)), Scalar(R(2)), Scalar(R(3)), Scalar(R(0)),
      Scalar(Rat(1, 200)), Scalar(R(11)),
      Array(<<R(2)>>), Array(<<R(1), R(2)>>), Array(<<R(2), R(1), R(3)>>),
      Array(<<R(1), R(11)>>) }

\* out = make_mapping_array(N, data, gamma, reverse)
MakeMappingArray(N, data, gamma, reverse) ==
    /\ out' = make_mapping_array(N, data, gamma, reverse)
    /\ UNCHANGED <<cmap_d, objs, dicts, ret, norm>>

MappingNext ==
    \E N \in 0..MaxN, data \in DataArgs, gamma \in MappingGammas,
       reverse \in BOOLEAN :
        MakeMappingArray(N, data, gamma, reverse)

\* calls of make_mapping_array
SpecMapping == NormInit /\ [][MappingNext]_vars

-----------------------------------------------------------------------------
(* Clipping, shifting and merging as a state machine.  The caller brings   *)
(* four maps and keeps the map the last call returned; clips and merges    *)
(* are of the maps brought, shifts also of the map kept.                   *)

\* the greatest shift, and the greatest slice parameter
MaxShift == 5

MaxSlice == 5

\* the segment data of the plain segmented map
RgbDict ==
    [red   |-> << <<R(0), 0, 0>>, <<R(1), 10, 10>> >>,
     green |-> << <<R(0), 1, 2>>, <<Rat(1, 2), 3, 4>>, <<R(1), 5, 6>> >>,
     blue  |-> << <<R(0), 7, 7>>, <<R(1), 8, 9>> >>]

\* the maps the caller brings: a ListedColormap of four colors, a
\* LinearSegmentedColormap, and perceptually uniform maps in two spaces
RECURSIVE BroughtMaps(_, _)
BroughtMaps(st, i) ==
    IF i = 1 THEN BroughtMaps(ListedColormap(st,
                                  <<"c1", "c2", "c3", "c4">>).st, 2)
    ELSE IF i = 2
    THEN BroughtMaps(LinearSegmentedColormap(AllocDict(st, RgbDict).st,
                         NewId(st.dicts)).st, 3)
    ELSE IF i = 3
    THEN BroughtMaps(PerceptuallyUniformColormap(AllocDict(st, BaseDict).st,
                         NewId(st.dicts), "hcl", None, None, None).st, 4)
    ELSE IF i = 4
    THEN BroughtMaps(PerceptuallyUniformColormap(AllocDict(st, BaseDict).st,
                         NewId(st.dicts), "hsluv", None, None, None).st, 5)
    ELSE st

NoCmapCall ==
    [op |-> "", exc |-> "", ref |-> 0, ids |-> <<>>, left |-> None,
     right |-> None, shift |-> 0, ratios |-> <<>>]

CmapsInit ==
    \E st \in {BroughtMaps(EmptyStore, 1)} :
        /\ cmap_d = <<>>
        /\ objs = st.objs
        /\ dicts = st.dicts
        /\ ret = NoCmapCall
        /\ norm = NoNorm
        /\ out = NoOut

\* the number of maps and of dicts the caller brings
Brought == Len(BroughtMaps(EmptyStore, 1).objs)

BroughtDicts == Len(BroughtMaps(EmptyStore, 1).dicts)

\* the store after a call returned the map id: the maps brought and the map
\* returned when it is another one, which the caller keeps in place of the
\* map of the call before.  [st, id]
Keep(st, id) ==
    IF id <= Brought
    THEN [st |-> [objs  |-> SubSeq(st.objs, 1, Brought),
                  dicts |-> SubSeq(st.dicts, 1, BroughtDicts)],
          id |-> id]
    ELSE [st |-> [objs  |-> Append(SubSeq(st.objs, 1, Brought),
                                   [st.objs[id] EXCEPT
                                       !.sd = IF @ = 0 THEN 0
                                              ELSE BroughtDicts + 1]),
                  dicts |-> IF st.objs[id].sd = 0
                            THEN SubSeq(st.dicts, 1, BroughtDicts)
                            ELSE Append(SubSeq(st.dicts, 1, BroughtDicts),
                                        st.dicts[st.objs[id].sd])],
          id |-> Brought + 1]

\* the state after a call with outcome c = [exc, st, id]; after an error
\* the caller keeps no map
Returned(c, call) ==
    \E k \in {Keep(c.st, c.id)} :
        /\ objs' = k.st.objs
        /\ dicts' = k.st.dicts
        /\ ret' = [call EXCEPT !.exc = c.exc, !.ref = k.id]
        /\ UNCHANGED <<cmap_d, norm, out>>

\* m = _clip_cmap(objs[id], left, right)
Clip(id, left, right) ==
    /\ objs[id].cls = "Listed"
    /\ Returned(_clip_cmap(Store, id, left, right),
                [NoCmapCall EXCEPT !.op = "clip", !.ids = <<id>>,
                                   !.left = left, !.right = right])

\* m = _shift_cmap(objs[id], shift)
Shift(id, shift) ==
    /\ objs[id].cls = "Listed"
    /\ Returned(_shift_cmap(Store, id, shift),
                [NoCmapCall EXCEPT !.op = "shift", !.ids = <<id>>,
                                   !.shift = shift])

\* m = _merge_cmaps(*[objs[i] for i in ids], ratios=ratios)
Merge(ids, ratios) ==
    Returned(_merge_cmaps(Store, ids, ratios),
             [NoCmapCall EXCEPT !.op = "merge", !.ids = ids,
                                !.ratios = ratios])

\* the maps merged: every pair of the maps brought, and the triples that
\* begin and end with the same map
MergeIds ==
    {<<i, j>> : i \in 1..Brought, j \in 1..Brought}
    \cup {<<i, j, i>> : i \in 1..Brought, j \in 1..Brought}

\* the ratios of a merge of n maps: the default, and two lists
RatioArgs(n) ==
    {<<>>, [j \in 1..n |-> IF j = 1 THEN 1 ELSE 3],
           [j \in 1..n |-> IF j = 2 THEN 1 ELSE 2]}

SliceArgs == {None} \cup 0..MaxSlice

CmapsNext ==
    \/ \E id \in 1..Brought, left \in SliceArgs, right \in SliceArgs :
           Clip(id, left, right)
    \/ \E id \in DOMAIN objs, shift \in (-MaxShift)..MaxShift :
           Shift(id, shift)
    \/ \E ids \in MergeIds : \E ratios \in RatioArgs(Len(ids)) :
           Merge(ids, ratios)

SpecCmaps == CmapsInit /\ [][CmapsNext]_vars

-----------------------------------------------------------------------------
(* Properties of the registry *)

\* C1: after an item assignment under a name n that does not end in '_r',
\* the lookup of every letter-casing variant of n returns the object that
\* was assigned.
C1_CaseInsensitive ==
    (ret.op = "setitem" /\ Last2(ret.key) # SuffixR) =>
        \A m \in CaseVariants(ret.key) :
            /\ __getitem__(cmap_d, Store, m).exc = ""
            /\ __getitem__(cmap_d, Store, m).ref = ret.ref

\* C2: a lookup leaves the registry and the stored objects as they are, and
\* for every stored name n the lookup of n + '_r' in any casing returns a
\* new object, the result of reversed() on the entry stored under n.
C2_ReversedLookup ==
    [][ret'.op = "getitem" =>
          /\ UNCHANGED <<cmap_d, objs, dicts>>
          /\ \A n \in DOMAIN cmap_d :
                 lower(ret'.key) = n \o SuffixR =>
                     /\ ret'.exc = ""
                     /\ ret'.ref = 0
                     /\ ret'.val = reversed(Value(Store, cmap_d[n]))]_vars

\* a name is stored, and its '_r' form was looked up in another casing
C2_Witness ==
    /\ ret.op = "getitem"
    /\ ret.key = RdBu \o <<"_","R">>
    /\ lower(RdBu) \in DOMAIN cmap_d
    /\ ret.exc = ""
    /\ ret.val.cls = "PU"
    /\ ret.val = reversed(Value(Store, cmap_d[lower(RdBu)]))

\* C3: for every pair of the mirror table, in either order (a, b): when a is
\* stored and b is not, the lookup of b in any casing returns a new object,
\* the result of reversed() on the entry stored under a.
C3_MirrorLookup ==
    \A i \in 1..Len(_cmap_mirrors) :
        \A p \in {_cmap_mirrors[i], Reverse(_cmap_mirrors[i])} :
            (p[1] \in DOMAIN cmap_d /\ p[2] \notin DOMAIN cmap_d) =>
                \A m \in CaseVariants(p[2]) :
                    /\ __getitem__(cmap_d, Store, m).exc = ""
                    /\ __getitem__(cmap_d, Store, m).ref = 0
                    /\ __getitem__(cmap_d, Store, m).val =
                           reversed(Value(Store, cmap_d[p[1]]))

\* 'rdbu' is stored, 'burd' is not, and 'BuRd' was looked up
C3_Witness ==
    /\ ret.op = "getitem"
    /\ ret.key = BuRd
    /\ lower(RdBu) \in DOMAIN cmap_d
    /\ lower(BuRd) \notin DOMAIN cmap_d
    /\ ret.exc = ""
    /\ ret.val = reversed(Value(Store, cmap_d[lower(RdBu)]))

\* C4: no stored key ends in '_r'.
C4_NoReversedKeys == \A k \in DOMAIN cmap_d : Last2(k) # SuffixR

-----------------------------------------------------------------------------
(* Properties of the constructors *)

\* C5: after a successful Colormap(..., name=n), the lookup of n (of
\* 'no_name' when no name was given) returns the object the call returned.
C5_RegisteredUnderName ==
    (ret.op = "Colormap" /\ ret.exc = "") =>
        /\ ret.ref # 0
        /\ __getitem__(cmap_d, Store, ret.key).exc = ""
        /\ __getitem__(cmap_d, Store, ret.key).ref = ret.ref

\* C6: a successful Cycle(source, samples=k, name=n), where source is the
\* stored name of a discrete map of more than k colors and n is another
\* name, leaves the colors a lookup of source yields as they were.
C6_CycleLeavesSource ==
    [][(/\ ret'.op = "Cycle"
        /\ ret'.exc = ""
        /\ ret'.arg.kind = "str"
        /\ ret'.samples # None
        /\ lower(ret'.arg.s) \in DOMAIN cmap_d
        /\ lower(ret'.key) # lower(ret'.arg.s)
        /\ objs[cmap_d[lower(ret'.arg.s)]].cls = "Listed"
        /\ Len(objs[cmap_d[lower(ret'.arg.s)]].colors) > ret'.samples)
       => /\ __getitem__(cmap_d', [objs |-> objs', dicts |-> dicts'],
                         ret'.arg.s).exc = ""
          /\ __getitem__(cmap_d', [objs |-> objs', dicts |-> dicts'],
                         ret'.arg.s).val.colors
               = objs[cmap_d[lower(ret'.arg.s)]].colors]_vars

\* C7: a successful Colormap(source, gamma=g, gamma1=g1, gamma2=g2, name=n)
\* with one of the gammas given, where source is the stored name of a
\* perceptually uniform map and n is another name, leaves the segment data
\* a lookup of source yields, its gamma1 and gamma2 entries included, as
\* they were.
C7_GammaLeavesSource ==
    [][(/\ ret'.op = "Colormap"
        /\ ret'.exc = ""
        /\ ret'.arg.kind = "str"
        /\ ret'.gammas # <<None, None, None>>
        /\ lower(ret'.arg.s) \in DOMAIN cmap_d
        /\ lower(ret'.key) # lower(ret'.arg.s)
        /\ objs[cmap_d[lower(ret'.arg.s)]].cls = "PU")
       => /\ __getitem__(cmap_d', [objs |-> objs', dicts |-> dicts'],
                         ret'.arg.s).exc = ""
          /\ __getitem__(cmap_d', [objs |-> objs', dicts |-> dicts'],
                         ret'.arg.s).val.segmentdata
               = Value(Store, cmap_d[lower(ret'.arg.s)]).segmentdata]_vars

-----------------------------------------------------------------------------
(* Properties of BinNorm *)

\* C8: every call of a constructed BinNorm returns a value, that value is
\* an entry of the position table, and the table holds at most
\* len(levels) + 1 distinct entries.
C8_TableElement ==
    (norm.exc = "" /\ out.op = "call") =>
        /\ out.exc = ""
        /\ \E j \in 1..Len(norm.y) : out.val = norm.y[j]
        /\ Cardinality({norm.y[j] : j \in 1..Len(norm.y)})
             <= Len(norm.levels) + 1

\* C9: a value strictly between levels[i] and levels[i+1] gets index i + 1
\* of the table, the index it gets under the default linear pre-normalizer,
\* and that index is an interior slot: neither the under slot, the first
\* entry, nor the over slot, the last entry.
C9_BinSelection ==
    (norm.exc = "" /\ out.op = "call") =>
        \A i \in 0..(Len(norm.levels) - 2) :
            (RLt(norm.levels[i + 1], out.xq) /\ RLt(out.xq, norm.levels[i + 2]))
            => /\ out.exc = ""
               /\ out.idx = i + 1
               /\ out.idx = BinNormCall(BinNorm(norm.levels, "linear", norm.step,
                                                norm.extend), out.xq).idx
               /\ 0 < out.idx
               /\ out.idx < Len(norm.y) - 1
               /\ out.val = norm.y[out.idx + 1]

\* C10: with eps = step/len(levels), the first entry of the table (the
\* under slot) is 0 and the last (the over slot) is 1; the entries between
\* them are the interior positions, of which the lowest is eps when extend
\* is 'min' or 'both' and 0 otherwise, the highest is 1 - eps when extend is
\* 'max' or 'both' and 1 otherwise, and all lie between these two bounds.
C10_ExtendReservation ==
    norm.exc = "" =>
        LET n   == Len(norm.y)
            eps == RDiv(norm.step, R(Len(norm.levels)))
            lo  == IF norm.extend \in {"min", "both"} THEN eps ELSE R(0)
            hi  == IF norm.extend \in {"max", "both"} THEN RSub(R(1), eps)
                   ELSE R(1)
        IN  /\ norm.y[1] = R(0)
            /\ norm.y[n] = R(1)
            /\ n > 2
            /\ norm.y[2] = lo
            /\ norm.y[n - 1] = hi
            /\ \A j \in 2..(n - 1) :
                   \/ RLe(lo, norm.y[j]) /\ RLe(norm.y[j], hi)
                   \/ RLe(hi, norm.y[j]) /\ RLe(norm.y[j], lo)

\* C11: with the default pre-normalizer the interior positions of the
\* table are evenly spaced, however the levels are spaced.
C11_EvenlySpaced ==
    (norm.exc = "" /\ norm.kind = "linear") =>
        \A j \in 2..(Len(norm.y) - 3) :
            RSub(norm.y[j + 1], norm.y[j]) = RSub(norm.y[j + 2], norm.y[j + 1])

\* C12: every call of inverse on a BinNorm instance raises and returns no
\* value, and leaves the instance, its levels and its table, as it was.
C12_InverseFails ==
    [][out'.op = "inverse" =>
          /\ out'.exc = "RuntimeError"
          /\ norm.exc = ""
          /\ norm' = norm]_vars

\* inverse was called on an instance that had returned a value before
C12_Witness ==
    /\ norm.exc = ""
    /\ Len(norm.levels) = 3
    /\ out.op = "inverse"
    /\ out.exc = "RuntimeError"

\* C13: BinNorm and LinearSegmentedNorm raise at construction, and there
\* is no instance, when there are fewer than 2 levels or some level is not
\* greater than the one before it; every strictly increasing sequence of 2
\* or more levels is accepted (by BinNorm with one of its extend options).
C13_LevelsValidated ==
    (norm.cls \in {"BinNorm", "LinearSegmentedNorm"}) =>
        /\ (\/ Len(norm.levels) < 2
            \/ \E j \in 1..(Len(norm.levels) - 1) :
                   RLe(norm.levels[j + 1], norm.levels[j]))
           => /\ norm.exc = "ValueError"
              /\ norm.x_b = <<>>
              /\ norm.y = <<>>
        /\ (/\ Len(norm.levels) >= 2
            /\ \A j \in 1..(Len(norm.levels) - 1) :
                   RLt(norm.levels[j], norm.levels[j + 1])
            /\ norm.cls = "BinNorm" => norm.extend \in Extends)
           => /\ norm.exc = ""
              /\ Len(norm.y) >= 2

\* LinearSegmentedNorm was given three levels out of order
C13_Witness ==
    /\ norm.cls = "LinearSegmentedNorm"
    /\ norm.exc = "ValueError"
    /\ Len(norm.levels) = 3
    /\ RLt(norm.levels[1], norm.levels[2])
    /\ RLe(norm.levels[3], norm.levels[2])

\* C14: a MidpointNorm whose midpoint is not strictly between vmin and vmax
\* is rejected: its construction raises, and so does every call of it.
C14_MidpointRejected ==
    (/\ norm.cls = "MidpointNorm"
     /\ norm.vmin # NoLimit
     /\ norm.vmax # NoLimit
     /\ RLe(norm.midpoint, norm.vmin) \/ RLe(norm.vmax, norm.midpoint))
    => /\ norm.exc = "ValueError"
       /\ out.op = "call" => out.exc = "ValueError"

\* C15: LinearSegmentedNorm takes levels[i] to i/(len(levels) - 1) and is
\* linear between adjacent levels, and for every x from levels[0] to
\* levels[-1] inverse gives x back from the value the call returned for x.
C15_InverseUndoesCall ==
    (norm.cls = "LinearSegmentedNorm" /\ norm.exc = "") =>
        /\ \A i \in 1..Len(norm.levels) :
               LinearSegmentedNormCall(norm, norm.levels[i]).val
                 = Rat(i - 1, Len(norm.levels) - 1)
        /\ (/\ out.op = "call"
            /\ RLe(norm.levels[1], out.xq)
            /\ RLe(out.xq, norm.levels[Len(norm.levels)]))
           => /\ LinearSegmentedNormInverse(norm, out.val).val = out.xq
              /\ \A i \in 1..(Len(norm.levels) - 1) :
                     (RLe(norm.levels[i], out.xq)
                        /\ RLe(out.xq, norm.levels[i + 1]))
                     => out.val
                          = RDiv(RAdd(R(i - 1),
                                      RDiv(RSub(out.xq, norm.levels[i]),
                                           RSub(norm.levels[i + 1],
                                                norm.levels[i]))),
                                 R(Len(norm.levels) - 1))

\* a value inside the second of three unequal segments was normalized
C15_Witness ==
    /\ norm.cls = "LinearSegmentedNorm"
    /\ norm.levels = <<R(0), R(1), R(3), R(4)>>
    /\ out.op = "call"
    /\ out.xq = Rat(3, 2)
    /\ out.val = Rat(5, 12)

-----------------------------------------------------------------------------
(* Properties of make_mapping_array *)

\* C16: make_mapping_array raises and gives no table when a gamma is below
\* 0.01 or above 10, when the number of gammas is neither 1 nor rows - 1 (or
\* is more than 1 for callable data), when the data is not n-by-3, when the
\* first x is not 0 or the last x is not 1, or when x decreases; every
\* other input gives a table of exactly N entries.
C16_MappingValidated ==
    (out.op = "make_mapping_array") =>
        LET gammas == out.gamma[2]
            rows   == out.data.rows
            table  == out.data.kind = "table"
            nx3    == rows # <<>> /\ \A j \in 1..Len(rows) : Len(rows[j]) = 3
            rejected ==
                \/ \E j \in 1..Len(gammas) :
                       RLt(gammas[j], Rat(1, 100)) \/ RLt(R(10), gammas[j])
                \/ ~table /\ Len(gammas) > 1
                \/ table /\ Len(gammas) \notin {1, Len(rows) - 1}
                \/ table /\ ~nx3
                \/ table /\ nx3 /\ rows[1][1] # R(0)
                \/ table /\ nx3 /\ rows[Len(rows)][1] # R(1)
                \/ table /\ nx3 /\ \E j \in 1..(Len(rows) - 1) :
                                       RLt(rows[j + 1][1], rows[j][1])
        IN  IF rejected
            THEN out.exc # "" /\ out.lut = <<>>
            ELSE out.exc = "" /\ Len(out.lut) = out.N

-----------------------------------------------------------------------------
(* Properties of _clip_cmap, _shift_cmap and _merge_cmaps *)

\* C17: clipping a discrete map with a left or right slice parameter beyond
\* the end of its color list raises an error and returns no map.
C17_SliceOutOfRange ==
    [][(/\ ret'.op = "clip"
        /\ \/ ret'.left > Len(objs[ret'.ids[1]].colors)
           \/ ret'.right > Len(objs[ret'.ids[1]].colors))
       => ret'.exc # "" /\ ret'.ref = 0]_vars

\* C18: a merge of two or more maps that are not all of one type, or that
\* are perceptually uniform in different colorspaces, raises an error and
\* returns no map, and the maps given and their segment data are as they
\* were.
C18_MixedMergeFails ==
    [][(/\ ret'.op = "merge"
        /\ \/ \E i, j \in 1..Len(ret'.ids) :
                  objs[ret'.ids[i]].cls # objs[ret'.ids[j]].cls
           \/ \E i, j \in 1..Len(ret'.ids) :
                  /\ objs[ret'.ids[i]].cls = "PU"
                  /\ objs[ret'.ids[j]].cls = "PU"
                  /\ objs[ret'.ids[i]].space # objs[ret'.ids[j]].space)
       => /\ ret'.exc = "ValueError"
          /\ ret'.ref = 0
          /\ objs' = SubSeq(objs, 1, Brought)
          /\ dicts' = SubSeq(dicts, 1, BroughtDicts)]_vars

\* perceptually uniform maps of two colorspaces were given to a merge
C18_Witness ==
    /\ ret.op = "merge"
    /\ Len(ret.ids) = 2
    /\ objs[ret.ids[1]].cls = "PU"
    /\ objs[ret.ids[2]].cls = "PU"
    /\ objs[ret.ids[1]].space # objs[ret.ids[2]].space
    /\ ret.exc = "ValueError"

C20_ShiftRotates ==
    \A id \in DOMAIN objs :
        (objs[id].cls = "Listed" /\ objs[id].colors # <<>>) =>
            LET L == Len(objs[id].colors)
                colors(c) == c.st.objs[c.id].colors
                shift(k)  == _shift_cmap(Store, id, k)
            IN  \A k \in (-MaxShift)..MaxShift :
                    /\ shift(k).exc = ""
                    /\ Len(colors(shift(k))) = L
                    /\ \A p \in 1..L :
                           colors(shift(k))[p]
                             = objs[id].colors[((p - 1 + k) % L) + 1]
                    /\ k % L = 0 => colors(shift(k)) = objs[id].colors
                    /\ \A j \in (-MaxShift)..MaxShift :
                           colors(_shift_cmap(shift(j).st, shift(j).id, k))
                             = colors(_shift_cmap(Store, id, j + k))

\* the map the caller brought was shifted by 2
C20_Witness ==
    /\ ret.op = "shift"
    /\ ret.ids = <<1>>
    /\ ret.shift = 2
    /\ ret.exc = ""
    /\ objs[ret.ref].colors = <<"c3", "c4", "c1", "c2">>

-----------------------------------------------------------------------------
(* Further properties of BinNorm *)

\* C28: for every strictly increasing sequence of 2 or more levels the
\* table has len(levels) + 1 entries, and every call, with a value below
\* the first level or above the last one too, returns a position.
C28_TwoLevelsWork ==
    norm.exc = "" =>
        /\ Len(norm.y) = Len(norm.levels) + 1
        /\ out.op = "call" => out.exc = ""

\* C29: with the default pre-normalizer and extend 'min' or 'both' a value
\* gets the under slot, the first entry of the table, exactly when it is
\* below the first level; with extend 'max' or 'both' it gets the over slot,
\* the last entry, exactly when it is above the last level.
C29_InRangeInterior ==
    (norm.exc = "" /\ norm.kind = "linear" /\ out.op = "call") =>
        /\ out.exc = ""
        /\ norm.extend \in {"min", "both"} =>
               (out.idx = 0 <=> RLt(out.xq, norm.levels[1]))
        /\ norm.extend \in {"max", "both"} =>
               (out.idx = Len(norm.y) - 1
                  <=> RLt(norm.levels[Len(norm.levels)], out.xq))

-----------------------------------------------------------------------------
(* Further properties of the registry *)

\* C30: a pop either removes exactly the entry stored under the lowered
\* key, which has no '_r' suffix, and returns the value of that entry, or
\* it leaves every entry as it was and returns the default or raises
\* KeyError; a key with an '_r' suffix and a mirror name remove nothing.
C30_PopAllOrNothing ==
    [][ret'.op = "pop" =>
          LET k      == lower(ret'.key)
              before == [n \in DOMAIN cmap_d |-> Value(Store, cmap_d[n])]
              after  == [n \in DOMAIN cmap_d' |-> Value(Store', cmap_d'[n])]
          IN  \/ /\ k \in DOMAIN cmap_d
                 /\ Last2(k) # SuffixR
                 /\ after = [n \in DOMAIN cmap_d \ {k} |-> before[n]]
                 /\ ret'.exc = ""
                 /\ ret'.val = before[k]
              \/ /\ after = before
                 /\ ret'.exc \in {"", "KeyError"}
                 /\ ret'.val = NoValue]_vars

-----------------------------------------------------------------------------
(* Further properties of the constructors *)

\* C23: after a successful Cycle(..., name=n) with n other than 'no_name',
\* the lookup of n returns the object the call returned, and every other
\* entry of the registry was there before the call, with the same value.
C23_CycleRegistersOnce ==
    [][(/\ ret'.op = "Cycle"
        /\ ret'.exc = ""
        /\ lower(ret'.key) # no_name)
       => /\ ret'.ref # 0
          /\ __getitem__(cmap_d', Store', ret'.key).exc = ""
          /\ __getitem__(cmap_d', Store', ret'.key).ref = ret'.ref
          /\ \A k \in DOMAIN cmap_d' \ {lower(ret'.key)} :
                 /\ k \in DOMAIN cmap_d
                 /\ Value(Store', cmap_d'[k]) = Value(Store, cmap_d[k])]_vars

-----------------------------------------------------------------------------
(* Further properties of make_mapping_array *)

\* C25: in a table built from tabular data, an entry strictly inside a
\* segment whose gamma is not 1 is interpolated with the inverted weighting
\* 1 - (1 - distance)**gamma exactly when reverse differs from "the segment
\* is increasing" (the incoming value of its right row is greater than the
\* outgoing value of its left row), and with distance**gamma otherwise.
C25_GammaDirection ==
    (out.op = "make_mapping_array" /\ out.exc = ""
        /\ out.data.kind = "table") =>
        \A i \in 2..(out.N - 1) :
            LET rows  == out.data.rows
                gl    == out.gamma[2]
                x(j)  == RMul(rows[j][1], R(out.N - 1))
                seg   == Cardinality({j \in 1..Len(rows) :
                                         RLt(x(j), R(i - 1))})
                g     == IF Len(gl) = 1 THEN gl[1] ELSE gl[seg]
                lo    == rows[seg][3]
                hi    == rows[seg + 1][2]
                d     == RDiv(RSub(R(i - 1), x(seg)),
                              RSub(x(seg + 1), x(seg)))
                inv   == out.reverse # RLt(lo, hi)
                dg    == IF inv THEN RSub(R(1), RPow(RSub(R(1), d), g[1]))
                         ELSE RPow(d, g[1])
            IN  g # R(1) => out.lut[i] = RAdd(RMul(dg, RSub(hi, lo)), lo)

\* C26: for every N >= 1 and every tabular input that passes the tests,
\* with any gamma and reverse, the call returns a table whose first entry is
\* the outgoing value of the first row and whose last entry is the incoming
\* value of the last row.
C26_EndpointsSnap ==
    (out.op = "make_mapping_array" /\ out.data.kind = "table"
        /\ MappingCheck(out.data, out.gamma) = "" /\ out.N >= 1) =>
        /\ out.exc = ""
        /\ out.lut[1] = out.data.rows[1][3]
        /\ out.lut[Len(out.lut)] = out.data.rows[Len(out.data.rows)][2]

-----------------------------------------------------------------------------
(* to_rgb and to_xyz.  A color is a str (enc "str") or a tuple of numbers  *)
(* in an encoding.  The package colormath is not among the sources: the    *)
(* channels of a color in one of its encodings are known by the encoding   *)
(* and the RGB tuple they stand for, so that <enc>_to_rgb undoes           *)
(* rgb_to_<enc> and no other conversion.                                   *)

Color(s, enc, ch) == [s |-> s, enc |-> enc, ch |-> ch]

NoColor == Color("", "none", <<>>)

\* the result of a conversion: [exc, val]
Converted(exc, val) == [exc |-> exc, val |-> val]

\* mcolors.to_rgb(s) for a str: the RGB tuple of a registered color name,
\* NoColor when it raises ValueError
mcolors_to_rgb(s) ==
    IF s = "red" THEN Color("", "rgb", <<R(1), R(0), R(0)>>)
    ELSE IF s = "gray" THEN Color("", "rgb", <<Rat(1, 2), Rat(1, 2), Rat(1, 2)>>)
    ELSE NoColor

\* colormath.rgb_to_<enc>(*color): TypeError unless there are 3 numbers
colormath_from_rgb(enc, color) ==
    IF Len(color.ch) # 3 THEN Converted("TypeError", NoColor)
    ELSE IF color.enc = "rgb" THEN Converted("", Color("", enc, color.ch))
    ELSE Converted("", Color("", "other", color.ch))

\* colormath.<enc>_to_rgb(*color)
colormath_to_rgb(enc, color) ==
    IF Len(color.ch) # 3 THEN Converted("TypeError", NoColor)
    ELSE IF color.enc = enc THEN Converted("", Color("", "rgb", color.ch))
    ELSE Converted("", Color("", "other", color.ch))

\* to_rgb(color, space)
to_rgb(color, space) ==
    IF color.enc = "str"
    THEN (IF mcolors_to_rgb(color.s) = NoColor
          THEN Converted("ValueError", NoColor)
          ELSE Converted("", mcolors_to_rgb(color.s)))
    ELSE IF space = "rgb"
    THEN LET c3 == PySlice(color.ch, None, 3)
         IN  Converted("", [color EXCEPT !.ch =
                 IF \E i \in 1..Len(c3) : RLt(R(1), c3[i])
                 THEN [i \in 1..Len(c3) |-> RDiv(c3[i], R(255))]
                 ELSE c3])
    ELSE IF space = "hsv" THEN colormath_to_rgb("hsl", color)
    ELSE IF space = "hpl" THEN colormath_to_rgb("hpluv", color)
    ELSE IF space = "hsl" THEN colormath_to_rgb("hsluv", color)
    ELSE IF space = "hcl" THEN colormath_to_rgb("hcl", color)
    ELSE Converted("ValueError", NoColor)

\* to_xyz(color, space)
to_xyz(color, space) ==
    LET rgb == IF color.enc = "str" THEN mcolors_to_rgb(color.s)
               ELSE [color EXCEPT !.ch = PySlice(color.ch, None, 3)]
    IN  IF rgb = NoColor THEN Converted("ValueError", NoColor)
        ELSE IF space = "hsv" THEN colormath_from_rgb("hsl", rgb)
        ELSE IF space = "hpl" THEN colormath_from_rgb("hpluv", rgb)
        ELSE IF space = "hsl" THEN colormath_from_rgb("hsluv", rgb)
        ELSE IF space = "hcl" THEN colormath_from_rgb("hcl", rgb)
        ELSE IF space = "rgb" THEN Converted("", rgb)
        ELSE Converted("ValueError", NoColor)

-----------------------------------------------------------------------------
(* The colorspace identifiers as a state machine: out is the last call,    *)
(* and the store holds the perceptually uniform map the caller built last. *)

\* the colors given: names, RGB tuples (one with an alpha entry, one on the
\* scale of 255), and channels in the encodings of colormath
ColorArgs ==
    { Color("red", "str", <<>>), Color("gray", "str", <<>>),
      Color("nocolor", "str", <<>>),
      Color("", "rgb", <<R(0), Rat(1, 2), R(1)>>),
      Color("", "rgb", <<R(1), R(1), R(0), Rat(1, 2)>>),
      Color("", "rgb", <<R(255), R(0), R(51)>>) }
    \cup { Color("", enc, <<R(0), Rat(1, 4), R(1)>>) :
               enc \in {"hsl", "hpluv", "hsluv", "hcl"} }

\* the identifiers given: the keys of _space_aliases and two unknown ones
SpaceArgs == DOMAIN _space_aliases \cup {"xyz", "HSL"}

ColorCall(op, color, space, c, from) ==
    [op |-> op, color |-> color, space |-> space, exc |-> c.exc,
     val |-> c.val, from |-> from]

\* to_rgb(color, space)
ToRgb(color, space) ==
    /\ out' = ColorCall("to_rgb", color, space, to_rgb(color, space), NoColor)
    /\ UNCHANGED <<cmap_d, objs, dicts, ret, norm>>

\* to_xyz(color, space)
ToXyz(color, space) ==
    /\ out' = ColorCall("to_xyz", color, space, to_xyz(color, space), NoColor)
    /\ UNCHANGED <<cmap_d, objs, dicts, ret, norm>>

\* to_rgb(xyz, space) on the channels xyz that to_xyz(c, space) returned
ToRgbBack ==
    /\ out.op = "to_xyz"
    /\ out.exc = ""
    /\ out' = ColorCall("to_rgb", out.val, out.space,
                        to_rgb(out.val, out.space), out.color)
    /\ UNCHANGED <<cmap_d, objs, dicts, ret, norm>>

\* PerceptuallyUniformColormap(name, segmentdata, space=space) on a new dict
NewPU(space) ==
    \E a \in {AllocDict(EmptyStore, BaseDict)} :
    \E c \in {PerceptuallyUniformColormap(a.st, a.id, space,
                                          None, None, None)} :
        /\ out' = ColorCall("PerceptuallyUniformColormap", NoColor, space,
                      Converted(IF _get_space(space) = "ValueError"
                                THEN "ValueError" ELSE "", NoColor), NoColor)
        /\ objs' = IF out'.exc = "" THEN c.st.objs ELSE <<>>
        /\ dicts' = IF out'.exc = "" THEN c.st.dicts ELSE a.st.dicts
        /\ UNCHANGED <<cmap_d, ret, norm>>

ColorsNext ==
    \/ \E color \in ColorArgs, space \in SpaceArgs : ToRgb(color, space)
    \/ \E color \in ColorArgs, space \in SpaceArgs : ToXyz(color, space)
    \/ ToRgbBack
    \/ \E space \in SpaceArgs : NewPU(space)

\* calls of to_rgb, to_xyz and the perceptually uniform constructor
SpecColors == NormInit /\ [][ColorsNext]_vars

-----------------------------------------------------------------------------
(* Properties of the colorspace identifiers *)

\* C21: to_rgb, to_xyz and the constructor of a perceptually uniform map
\* raise for an identifier that is not a key of _space_aliases, whatever
\* the color, and for a key they do what they do for the canonical name.
C21_SpaceIdentifiers ==
    /\ out.op \in {"to_rgb", "to_xyz", "PerceptuallyUniformColormap"} =>
           (out.space \notin DOMAIN _space_aliases => out.exc # "")
    /\ (out.op = "to_rgb" /\ out.space \in DOMAIN _space_aliases) =>
           Converted(out.exc, out.val)
               = to_rgb(out.color, _space_aliases[out.space])
    /\ (out.op = "to_xyz" /\ out.space \in DOMAIN _space_aliases) =>
           Converted(out.exc, out.val)
               = to_xyz(out.color, _space_aliases[out.space])
    /\ (out.op = "PerceptuallyUniformColormap"
           /\ out.space \in DOMAIN _space_aliases) =>
           /\ out.exc = ""
           /\ objs[Len(objs)].space = _space_aliases[out.space]

\* C22: for every key of _space_aliases and every RGB tuple c of three
\* numbers in [0, 1], to_xyz(c, space) returns channels and to_rgb of these
\* channels in the same space returns c.
C22_RoundTrip ==
    LET gamut(c) == /\ c.enc = "rgb"
                    /\ Len(c.ch) = 3
                    /\ \A i \in 1..3 : RLe(R(0), c.ch[i]) /\ RLe(c.ch[i], R(1))
    IN  /\ (out.op = "to_xyz" /\ out.space \in DOMAIN _space_aliases
               /\ gamut(out.color)) => out.exc = ""
        /\ (out.op = "to_rgb" /\ out.from # NoColor
               /\ out.space \in DOMAIN _space_aliases /\ gamut(out.from)) =>
               out.exc = "" /\ out.val = out.from

-----------------------------------------------------------------------------
(* Clipping and cutting of continuous maps.  np.array makes every entry of *)
(* the segment data a float: the maps of this machine carry rationals.     *)

\* Colormap, the stage after the merge, for a continuous map cmap and
\* scalar left, right and cut: the clip to [left, right], or with a cut the
\* two clips and their merge
ColormapClip(st, id, left, right, cut) ==
    IF cut = NoLimit \/ cut = R(0) THEN _clip_cmap(st, id, left, right)
    ELSE LET cright == RSub(Rat(1, 2), RDiv(cut, R(2)))
             cleft  == RAdd(Rat(1, 2), RDiv(cut, R(2)))
             lcmap  == _clip_cmap(st, id, left, cright)
             rcmap  == _clip_cmap(lcmap.st, id, cleft, right)
         IN  IF lcmap.exc # "" THEN lcmap
             ELSE IF rcmap.exc # "" THEN rcmap
             ELSE _merge_cmaps(rcmap.st, <<lcmap.id, rcmap.id>>, <<>>)

\* the segment data of the maps brought: a jump of the luminance at 1/2,
\* and a gamma for each segment of the saturation and of the luminance
FloatDict ==
    [hue        |-> << <<R(0), R(0), R(0)>>, <<R(1), R(240), R(240)>> >>,
     saturation |-> << <<R(0), R(100), R(100)>>, <<Rat(1, 4), R(80), R(60)>>,
                       <<R(1), R(40), R(40)>> >>,
     luminance  |-> << <<R(0), R(100), R(100)>>, <<Rat(1, 2), R(60), R(60)>>,
                       <<Rat(1, 2), R(50), R(50)>>, <<R(1), R(20), R(20)>> >>,
     gamma1     |-> Array(<<2, 3>>),
     gamma2     |-> Array(<<4, 5, 6>>)]

\* the maps brought: PerceptuallyUniformColormap(name, FloatDict) with the
\* gamma lists of the dict, and another with gamma=2
ClipBrought ==
    LET a == AllocDict(EmptyStore, FloatDict)
        b == PerceptuallyUniformColormap(a.st, a.id, "hcl", None, None, None)
        c == AllocDict(b.st, FloatDict)
    IN  PerceptuallyUniformColormap(c.st, c.id, "hsl", 2, None, None).st

ClipInit ==
    \E st \in {ClipBrought} :
        /\ cmap_d = <<>>
        /\ objs = st.objs
        /\ dicts = st.dicts
        /\ ret = NoCmapCall
        /\ norm = NoNorm
        /\ out = NoOut

\* the number of maps and of dicts the caller brings
ClipMaps == Len(ClipBrought.objs)

ClipDicts == Len(ClipBrought.dicts)

\* the maps brought as the caller holds them: the first maps and dicts of
\* the store
ClipStore ==
    [objs  |-> SubSeq(objs, 1, ClipMaps),
     dicts |-> SubSeq(dicts, 1, ClipDicts)]

\* the outcome c of a call on the map id brought; the caller keeps the maps
\* brought and what the call made, in place of what the call before made
ClipReturned(c, op, id, left, right, cut) ==
    /\ objs' = IF c.exc = "" THEN c.st.objs ELSE ClipStore.objs
    /\ dicts' = IF c.exc = "" THEN c.st.dicts ELSE ClipStore.dicts
    /\ ret' = [op |-> op, exc |-> c.exc, ref |-> c.id, ids |-> <<id>>,
               left |-> left, right |-> right, cut |-> cut]
    /\ UNCHANGED <<cmap_d, norm, out>>

\* _clip_cmap(cmap, left, right) on a map brought
ClipRange(id, left, right) ==
    \E c \in {_clip_cmap(ClipStore, id, left, right)} :
        ClipReturned(c, "clip", id, left, right, NoLimit)

\* Colormap(cmap, left=left, right=right, cut=cut) on a map brought, up to
\* the cut
Cut(id, left, right, cut) ==
    /\ cut # NoLimit
    /\ \E c \in {ColormapClip(ClipStore, id, left, right, cut)} :
           ClipReturned(c, "cut", id, left, right, cut)

\* the left and right limits given: None, limits inside [0, 1], a left
\* limit no x exceeds and a right limit beyond the last x
LeftArgs == {NoLimit, R(0), Rat(1, 4), Rat(1, 2), R(1)}

RightArgs == {NoLimit, Rat(1, 2), Rat(3, 4), R(1), Rat(5, 4)}

ClipNext ==
    \/ \E id \in 1..ClipMaps, left \in LeftArgs,
          right \in RightArgs : ClipRange(id, left, right)
    \/ \E id \in 1..ClipMaps, left \in LeftArgs,
          right \in RightArgs, cut \in {R(0), Rat(1, 4), Rat(1, 2)} :
           Cut(id, left, right, cut)

\* clips and cuts of continuous maps
SpecClip == ClipInit /\ [][ClipNext]_vars

-----------------------------------------------------------------------------
(* Properties of the clip and the cut of continuous maps *)

\* C24: Colormap with left or right given as scalars, 0 <= left < right
\* <= 1, and a cut gives the two halves of the map clipped to [left, right]
\* without the wedge of width cut around the middle of the clipped map: a
\* channel of one segment, as the hue, starts with its value at left, jumps
\* at x = 1/2 from its value at left + (1/2 - cut/2)(right - left) to its
\* value at left + (1/2 + cut/2)(right - left), and ends with its value at
\* right.
C24_CutOfClipped ==
    [][(/\ ret'.op = "cut"
        /\ ret'.cut # R(0)
        /\ (ret'.left # NoLimit \/ ret'.right # NoLimit)
        /\ RLe(R(0), IF ret'.left = NoLimit THEN R(0) ELSE ret'.left)
        /\ RLt(IF ret'.left = NoLimit THEN R(0) ELSE ret'.left,
               IF ret'.right = NoLimit THEN R(1) ELSE ret'.right)
        /\ RLe(IF ret'.right = NoLimit THEN R(1) ELSE ret'.right, R(1))
        /\ Len(dicts[objs[ret'.ids[1]].sd].hue) = 2)
       => /\ ret'.exc = ""
          /\ ret'.ref # 0
          /\ LET e  == dicts[objs[ret'.ids[1]].sd].hue
                 f  == dicts'[objs'[ret'.ref].sd].hue
                 lo == IF ret'.left = NoLimit THEN R(0) ELSE ret'.left
                 hi == IF ret'.right = NoLimit THEN R(1) ELSE ret'.right
                 hue(x) == RAdd(e[1][3], RMul(x, RSub(e[2][2], e[1][3])))
                 at(t)  == hue(RAdd(lo, RMul(t, RSub(hi, lo))))
                 half   == RDiv(ret'.cut, R(2))
             IN  /\ Len(f) = 3
                 /\ f[1][1] = R(0) /\ f[1][3] = hue(lo)
                 /\ f[2] = <<Rat(1, 2), at(RSub(Rat(1, 2), half)),
                             at(RAdd(Rat(1, 2), half))>>
                 /\ f[3][1] = R(1) /\ f[3][2] = hue(hi)]_vars

\* C27: _clip_cmap of a continuous map with 0 <= left < right <= 1 (None is
\* 0 on the left and 1 on the right) returns a map in whose segment data
\* every channel starts at x = 0, ends at x = 1 and has non-decreasing x; a
\* gamma list has one entry less than its channel has rows, the entry of a
\* segment being the gamma of the segment of the given map it lies in, and a
\* single gamma stays.
C27_ClipWellFormed ==
    [][(/\ ret'.op = "clip"
        /\ RLe(R(0), IF ret'.left = NoLimit THEN R(0) ELSE ret'.left)
        /\ RLt(IF ret'.left = NoLimit THEN R(0) ELSE ret'.left,
               IF ret'.right = NoLimit THEN R(1) ELSE ret'.right)
        /\ RLe(IF ret'.right = NoLimit THEN R(1) ELSE ret'.right, R(1)))
       => /\ ret'.exc = ""
          /\ ret'.ref # 0
          /\ LET e  == dicts[objs[ret'.ids[1]].sd]
                 f  == dicts'[objs'[ret'.ref].sd]
                 lo == IF ret'.left = NoLimit THEN R(0) ELSE ret'.left
                 hi == IF ret'.right = NoLimit THEN R(1) ELSE ret'.right
                 back(x) == RAdd(lo, RMul(x, RSub(hi, lo)))
             IN  /\ \A key \in {"hue", "saturation", "luminance"} :
                        /\ Len(f[key]) >= 2
                        /\ f[key][1][1] = R(0)
                        /\ f[key][Len(f[key])][1] = R(1)
                        /\ \A j \in 1..(Len(f[key]) - 1) :
                               RLe(f[key][j][1], f[key][j + 1][1])
                 /\ \A p \in {<<"gamma1", "saturation">>,
                              <<"gamma2", "luminance">>} :
                        IF e[p[1]][1] # "array" THEN f[p[1]] = e[p[1]]
                        ELSE /\ f[p[1]][1] = "array"
                             /\ Len(f[p[1]][2]) = Len(f[p[2]]) - 1
                             /\ \A j \in 1..Len(f[p[1]][2]) :
                                    \E k \in 1..(Len(e[p[2]]) - 1) :
                                        /\ RLe(e[p[2]][k][1],
                                               back(f[p[2]][j][1]))
                                        /\ RLe(back(f[p[2]][j + 1][1]),
                                               e[p[2]][k + 1][1])
                                        /\ f[p[1]][2][j] = e[p[1]][2][k]]_vars

\* the map with a gamma for each segment was clipped to [1/4, 3/4]: the
\* luminance keeps its jump and its three gammas, the saturation one segment
\* with its gamma
C27_Witness ==
    /\ ret.op = "clip"
    /\ ret.exc = ""
    /\ ret.ids = <<1>>
    /\ ret.left = Rat(1, 4)
    /\ ret.right = Rat(3, 4)
    /\ Len(dicts[objs[ret.ref].sd].luminance) = 4
    /\ dicts[objs[ret.ref].sd].gamma2 = Array(<<4, 5, 6>>)
    /\ Len(dicts[objs[ret.ref].sd].saturation) = 2
    /\ dicts[objs[ret.ref].sd].gamma1 = Array(<<3>>)

====
